---- MODULE Spec2Model ----
(***************************************************************************)
(* vegepoly: polygon-constrained point sampling (src-tauri/src/sampling.rs)*)
(* and WKT polygon parsing (src-tauri/src/utils.rs, processing.rs).        *)
(*                                                                         *)
(* Coordinates are modelled on the integer lattice: every lattice point is *)
(* a value an f64 coordinate can take, and min_distance is an integer.     *)
(* cell_size = min_distance / sqrt(2) is irrational; the cell of a         *)
(* coordinate is computed exactly by comparing squares.                    *)
(***************************************************************************)
EXTENDS Integers, Sequences, FiniteSets, TLC

VARIABLES
    \* ---- SpatialDistributionSampler (sampling.rs:6-25) ----
    polygon,          \* the polygon handed to generate_distribution (exterior ring)
    min_distance,     \* field min_distance
    bounds,           \* field bounds: [min_x, min_y, max_x, max_y]
    grid_width,       \* field grid_width
    grid_height,      \* field grid_height
    grid,             \* field grid: cell index -> point index, NoneIdx when empty
    points,           \* field points
    active_indices,   \* field active_indices
    \* ---- position inside generate_distribution ----
    spc,              \* "idle", "seed", "check", "pick", "try", "done"
    seed_tries,       \* iterations of the seed loop already made (0 once the loop is left)
    idx,              \* position picked in active_indices (0-based; 0 outside an iteration)
    attempts,         \* iterations of the candidate loop made for this pivot (0 outside)
    result,           \* the returned Vec (<<>> until the return)
    \* ---- distribute_points_in_polygon (processing.rs:180-240) ----
    line,             \* argument polygon_str, a sequence of tokens
    ppc,              \* "idle", "start", "transform", "match", "sample", "sampling", "err"
    modified_str,     \* local modified_str
    maybe_polygon,    \* local maybe_polygon: <<>> for None, <<p>> for Some(p)
    parsed,           \* local polygon: <<>> until bound, then <<p>>
    via_fallback,     \* TRUE once parse_polygon_wkt has been called
    perr,             \* the error returned: "none" or its message
    pbounds,          \* local bounds: <<>> until computed, then <<b>>
    \* ---- VegetationProcessingState (models.rs:16-21) ----
    processed_rows,
    total_rows,
    created_items,
    errors,
    \* ---- generate_vegetation_from_csv and process_vegetation_data (processing.rs:31-168) ----
    content,          \* the content of the input file, a sequence of tokens
    params,           \* argument params: [density, variation]
    bpc,              \* "idle", "reset", "count", "open", "loop", "call", "write",
                      \* "account", "advance", "returned"
    lines,            \* local lines
    line_idx,         \* loop variable line_idx
    row_index,        \* local row_index
    out_points,       \* the Vec<String> built by distribute_points_in_polygon, one entry per row
    written,          \* number of point rows written to the output file
    \* ---- Settings (models/settings.rs) and its command (models/vegetations.rs:33-51) ----
    user_vegetation_params,   \* the rows of table user_vegetation_params
    store_ret,        \* what Settings::set_user_vegetation_params returned last: "none" before
                      \* the first call, "Ok", or the SettingsError variant
    cmd_ret,          \* what the command returned last: "none", "Ok" or "Err"
    cmd_args,         \* the arguments of the last command
    default_vegetation_params,   \* the rows of table default_vegetation_params
    export_path,      \* the value of key export_path in table settings
    fetched,          \* what get_vegetation_params, remove_user_vegetation_params or
                      \* reset_user_vegetation_params returned: [op, vegetation_type, ret, value]
    export_call,      \* the argument and the result of set_export_path: [path, ret]
    last_set,         \* history: per type, the parameters last stored and whether they
                      \* were removed since
    \* ---- the mutexes of VegetationProcessingState and get_vegetation_progress
    \*      (models.rs:16-21, processing.rs:66-76) ----
    mutex,            \* who holds the guard of each field: "free", "batch", "other" or "reader"
    rpc,              \* get_vegetation_progress: "idle", or the field it locks next
    snapshot,         \* the VegetationProgressInfo being built, then the one returned
    points_len,       \* points.len() in the Ok arm of process_vegetation_data
    row_items,        \* history: the number of points each row handled so far has added
    \* ---- a second invocation of generate_vegetation_from_csv on the same state ----
    other,            \* its locals: [pc, content, line_idx, row_index, points_len, written]
    \* ---- VegetationProcessingState of models/processing.rs:19-26 ----
    start_time,       \* field start_time: "None" or "Some"
    end_time,         \* field end_time: "None" or "Some"
    emitted           \* the VegetationProgressInfo of the last vegetation-progress event

svars == <<polygon, min_distance, bounds, grid_width, grid_height, grid, points,
           active_indices, spc, seed_tries, idx, attempts, result>>

pvars == <<line, ppc, modified_str, maybe_polygon, parsed, via_fallback, perr, pbounds>>

bvars == <<processed_rows, total_rows, created_items, errors, content, params, bpc,
           lines, line_idx, row_index, out_points, written>>

tvars == <<user_vegetation_params, store_ret, cmd_ret, cmd_args, default_vegetation_params,
           export_path, fetched, export_call, last_set>>

ovars == <<other, start_time, end_time, emitted>>

cvars == <<mutex, rpc, snapshot, points_len, row_items, ovars>>

vars == <<svars, pvars, bvars, tvars, cvars>>

(***************************************************************************)
(* Bounds of the model                                                     *)
(***************************************************************************)
StripLen == 12
MaxPairs == 3
MaxLines == 2

(***************************************************************************)
(* Program constants                                                       *)
(***************************************************************************)
SeedAttempts == 100
MaxAttempts == 30

NoneIdx == -1

(***************************************************************************)
(* Geometry                                                                *)
(***************************************************************************)
Pt(x, y) == [x |-> x, y |-> y]

Min2(a, b) == IF a <= b THEN a ELSE b
Max2(a, b) == IF a >= b THEN a ELSE b

\* p lies on the closed segment a-b
OnSegment(p, a, b) ==
    /\ (b.x - a.x) * (p.y - a.y) = (b.y - a.y) * (p.x - a.x)
    /\ Min2(a.x, b.x) <= p.x /\ p.x <= Max2(a.x, b.x)
    /\ Min2(a.y, b.y) <= p.y /\ p.y <= Max2(a.y, b.y)

\* the edge a-b crosses the horizontal ray from p towards +x
CrossesRay(p, a, b) ==
    /\ (a.y > p.y) # (b.y > p.y)
    /\ IF b.y > a.y
       THEN (p.x - a.x) * (b.y - a.y) < (p.y - a.y) * (b.x - a.x)
       ELSE (p.x - a.x) * (b.y - a.y) > (p.y - a.y) * (b.x - a.x)

\* geo's Polygon::contains(&Point) for a polygon without holes: the point is
\* in the interior of the exterior ring (boundary excluded).
PolyContains(ring, p) ==
    /\ Len(ring) >= 2
    /\ ~ \E i \in 1..(Len(ring) - 1) : OnSegment(p, ring[i], ring[i + 1])
    /\ Cardinality({i \in 1..(Len(ring) - 1) : CrossesRay(p, ring[i], ring[i + 1])}) % 2 = 1

RECURSIVE FoldMin(_, _, _), FoldMax(_, _, _)
FoldMin(ring, fld, i) ==
    IF i = Len(ring) THEN ring[i][fld] ELSE Min2(ring[i][fld], FoldMin(ring, fld, i + 1))
FoldMax(ring, fld, i) ==
    IF i = Len(ring) THEN ring[i][fld] ELSE Max2(ring[i][fld], FoldMax(ring, fld, i + 1))

\* calculate_polygon_bounds on a non-empty ring of finite coordinates
RingBounds(ring) ==
    [min_x |-> FoldMin(ring, "x", 1), min_y |-> FoldMin(ring, "y", 1),
     max_x |-> FoldMax(ring, "x", 1), max_y |-> FoldMax(ring, "y", 1)]

(***************************************************************************)
(* SpatialDistributionSampler                                              *)
(***************************************************************************)
\* (v / cell_size) as usize, cell_size = d / sqrt(2): the largest g with
\* g * d <= v * sqrt(2); a negative quotient casts to 0.
CellOf(v, d) ==
    IF v <= 0 THEN 0
    ELSE CHOOSE g \in 0..(2 * v) :
            /\ g * g * d * d <= 2 * v * v
            /\ (g + 1) * (g + 1) * d * d > 2 * v * v

\* GridDim giving one cell per axis whatever the extent
GridDim_One(w, d) == 1

\* (w / cell_size).ceil() as usize + 1
GridDim(w, d) ==
    IF w <= 0 THEN 1
    ELSE 1 + CHOOSE g \in 0..(2 * w + 1) :
            /\ g * g * d * d >= 2 * w * w
            /\ (g = 0 \/ (g - 1) * (g - 1) * d * d < 2 * w * w)

DistSq(p, q) == (p.x - q.x) * (p.x - q.x) + (p.y - q.y) * (p.y - q.y)

InBounds(p) ==
    ~ (p.x < bounds.min_x \/ p.x >= bounds.max_x \/ p.y < bounds.min_y \/ p.y >= bounds.max_y)

\* the cells start..=end that is_point_valid scans around cell g of an axis of n cells
WindowStart(g) == IF g > 1 THEN g - 1 ELSE 0
WindowEnd(g, n) == Min2(g + 1, n - 1)

\* is_point_valid without the scan of the neighbouring cells
is_point_valid_Always(p) == TRUE

is_point_valid(p) ==
    LET grid_x == CellOf(p.x - bounds.min_x, min_distance)
        grid_y == CellOf(p.y - bounds.min_y, min_distance)
    IN  \A y \in WindowStart(grid_y)..WindowEnd(grid_y, grid_height) :
          \A x \in WindowStart(grid_x)..WindowEnd(grid_x, grid_width) :
            LET gi == y * grid_width + x
            IN  (gi < grid_width * grid_height /\ grid[gi] # NoneIdx)
                    => ~ (DistSq(p, points[grid[gi] + 1]) < min_distance * min_distance)

\* GridWith with the two axes exchanged in the cell index
GridWith_Transposed(p, i) ==
    LET grid_x == CellOf(p.x - bounds.min_x, min_distance)
        grid_y == CellOf(p.y - bounds.min_y, min_distance)
        gi == grid_x * grid_width + grid_y
    IN  IF grid_x < grid_width /\ grid_y < grid_height /\ gi < grid_width * grid_height
        THEN [grid EXCEPT ![gi] = i]
        ELSE grid

\* the grid after add_point(p) has stored index i
GridWith(p, i) ==
    LET grid_x == CellOf(p.x - bounds.min_x, min_distance)
        grid_y == CellOf(p.y - bounds.min_y, min_distance)
        gi == grid_y * grid_width + grid_x
    IN  IF grid_x < grid_width /\ grid_y < grid_height /\ gi < grid_width * grid_height
        THEN [grid EXCEPT ![gi] = i]
        ELSE grid

\* add_point pushing the new index on the frontier twice
add_point_PushTwice(p) ==
    /\ points' = Append(points, p)
    /\ active_indices' = Append(Append(active_indices, Len(points)), Len(points))
    /\ grid' = GridWith(p, Len(points))

add_point(p) ==
    /\ points' = Append(points, p)
    /\ active_indices' = Append(active_indices, Len(points))
    /\ grid' = GridWith(p, Len(points))

\* SwapRemove dropping the last element instead of element i
SwapRemove_Pop(s, i) == SubSeq(s, 1, Len(s) - 1)

\* Vec::swap_remove(i), i 0-based: the last element takes the place of element i
SwapRemove(s, i) ==
    LET n == Len(s)
    IN  IF i + 1 = n THEN SubSeq(s, 1, n - 1)
        ELSE [k \in 1..(n - 1) |-> IF k = i + 1 THEN s[n] ELSE s[k]]

\* the values min + random::<f64>() * (max - min) takes on the lattice
SeedCoords(lo, hi) == IF hi > lo THEN lo..(hi - 1) ELSE {lo}

\* Annulus with the radius drawn from [d, 3d)
Annulus_Wide(d) ==
    {o \in ((0 - 3 * d)..(3 * d)) \X ((0 - 3 * d)..(3 * d)) :
        /\ o[1] * o[1] + o[2] * o[2] >= d * d
        /\ o[1] * o[1] + o[2] * o[2] < 9 * d * d}

\* the offsets radius * (cos angle, sin angle), radius in [d, 2d)
Annulus(d) ==
    {o \in ((0 - 2 * d)..(2 * d)) \X ((0 - 2 * d)..(2 * d)) :
        /\ o[1] * o[1] + o[2] * o[2] >= d * d
        /\ o[1] * o[1] + o[2] * o[2] < 4 * d * d}

\* CandidateAccepted without the polygon.contains test
CandidateAccepted_NoContains(p) == is_point_valid(p)

\* the test of a candidate that passed the bounds test (sampling.rs:112)
CandidateAccepted(p) == PolyContains(polygon, p) /\ is_point_valid(p)

Rect(w, h) == <<Pt(0, 0), Pt(w, 0), Pt(w, h), Pt(0, h), Pt(0, 0)>>

\* the sampling jobs of the model: a polygon and a min_distance
Jobs ==
    { [ring |-> Rect(StripLen, 2), d |-> 5],
      [ring |-> Rect(4, 4), d |-> 2],
      [ring |-> <<Pt(0, 0), Pt(4, 0), Pt(0, 4), Pt(0, 0)>>, d |-> 1],
      [ring |-> <<Pt(1, 1), Pt(4, 1), Pt(1, 1)>>, d |-> 2],
      [ring |-> Rect(2, 2), d |-> 3] }

\* SpatialDistributionSampler::new(d, calculate_polygon_bounds(ring))
SamplerInit ==
    \E job \in Jobs :
        LET b == RingBounds(job.ring)
            gw == GridDim(b.max_x - b.min_x, job.d)
            gh == GridDim(b.max_y - b.min_y, job.d)
        IN  /\ polygon = job.ring
            /\ min_distance = job.d
            /\ bounds = b
            /\ grid_width = gw
            /\ grid_height = gh
            /\ grid = [i \in 0..(gw * gh - 1) |-> NoneIdx]
            /\ points = <<>>
            /\ active_indices = <<>>
            /\ spc = "seed"
            /\ seed_tries = 0
            /\ idx = 0
            /\ attempts = 0
            /\ result = <<>>

\* no line is being parsed
ParseIdle ==
    /\ line = <<>>
    /\ ppc = "idle"
    /\ modified_str = <<>>
    /\ maybe_polygon = <<>>
    /\ parsed = <<>>
    /\ via_fallback = FALSE
    /\ perr = "none"
    /\ pbounds = <<>>

\* SeedTry without the break after add_point
SeedTry_NoBreak ==
    /\ UNCHANGED <<pvars, bvars, tvars, cvars>>
    /\ spc = "seed"
    /\ seed_tries < SeedAttempts
    /\ \E x \in SeedCoords(bounds.min_x, bounds.max_x), y \in SeedCoords(bounds.min_y, bounds.max_y) :
        IF PolyContains(polygon, Pt(x, y))
        THEN /\ add_point(Pt(x, y))
             /\ spc' = IF seed_tries + 1 = SeedAttempts THEN "check" ELSE "seed"
             /\ seed_tries' = IF seed_tries + 1 = SeedAttempts THEN 0 ELSE seed_tries + 1
        ELSE /\ seed_tries' = seed_tries + 1
             /\ UNCHANGED <<points, active_indices, grid, spc>>
    /\ UNCHANGED <<polygon, min_distance, bounds, grid_width, grid_height, idx, attempts, result>>

\* one iteration of the seed loop (sampling.rs:71-80)
SeedTry ==
    /\ UNCHANGED <<pvars, bvars, tvars, cvars>>
    /\ spc = "seed"
    /\ seed_tries < SeedAttempts
    /\ \E x \in SeedCoords(bounds.min_x, bounds.max_x), y \in SeedCoords(bounds.min_y, bounds.max_y) :
        IF PolyContains(polygon, Pt(x, y))
        THEN /\ add_point(Pt(x, y))
             /\ spc' = "check"
             /\ seed_tries' = 0
        ELSE /\ seed_tries' = seed_tries + 1
             /\ UNCHANGED <<points, active_indices, grid, spc>>
    /\ UNCHANGED <<polygon, min_distance, bounds, grid_width, grid_height, idx, attempts, result>>

\* the seed loop ran out of iterations (sampling.rs:71)
SeedExhausted ==
    /\ UNCHANGED <<pvars, bvars, tvars, cvars>>
    /\ spc = "seed"
    /\ seed_tries = SeedAttempts
    /\ spc' = "check"
    /\ seed_tries' = 0
    /\ UNCHANGED <<polygon, min_distance, bounds, grid_width, grid_height, grid, points,
                   active_indices, idx, attempts, result>>

\* if self.active_indices.is_empty() { return Vec::new(); } (sampling.rs:82-84)
SeedCheck ==
    /\ UNCHANGED <<pvars, bvars, tvars, cvars>>
    /\ spc = "check"
    /\ IF active_indices = <<>>
       THEN /\ result' = <<>>
            /\ spc' = "done"
       ELSE /\ spc' = "pick"
            /\ UNCHANGED result
    /\ UNCHANGED <<polygon, min_distance, bounds, grid_width, grid_height, grid, points,
                   active_indices, seed_tries, idx, attempts>>

\* PickActive drawing from 0..=len instead of 0..len
PickActive_Inclusive ==
    /\ UNCHANGED <<pvars, bvars, tvars, cvars>>
    /\ spc = "pick"
    /\ active_indices # <<>>
    /\ \E i \in 0..Len(active_indices) : idx' = i
    /\ attempts' = 0
    /\ spc' = "try"
    /\ UNCHANGED <<polygon, min_distance, bounds, grid_width, grid_height, grid, points,
                   active_indices, seed_tries, result>>

\* head of the growth loop: pick an active point (sampling.rs:87-93)
PickActive ==
    /\ UNCHANGED <<pvars, bvars, tvars, cvars>>
    /\ spc = "pick"
    /\ active_indices # <<>>
    /\ \E i \in 0..(Len(active_indices) - 1) : idx' = i
    /\ attempts' = 0
    /\ spc' = "try"
    /\ UNCHANGED <<polygon, min_distance, bounds, grid_width, grid_height, grid, points,
                   active_indices, seed_tries, result>>

\* TryCandidate going on with the remaining attempts after it accepted a candidate
TryCandidate_NoBreak ==
    /\ UNCHANGED <<pvars, bvars, tvars, cvars>>
    /\ spc = "try"
    /\ attempts < MaxAttempts
    /\ \E o \in Annulus(min_distance) :
        LET active_point == points[active_indices[idx + 1] + 1]
            new_point == Pt(active_point.x + o[1], active_point.y + o[2])
        IN  IF InBounds(new_point) /\ CandidateAccepted(new_point)
            THEN /\ add_point(new_point)
                 /\ attempts' = attempts + 1
                 /\ UNCHANGED <<spc, idx>>
            ELSE /\ attempts' = attempts + 1
                 /\ UNCHANGED <<points, active_indices, grid, spc, idx>>
    /\ UNCHANGED <<polygon, min_distance, bounds, grid_width, grid_height, seed_tries, result>>

\* TryCandidate without the bounding-box test and the polygon.contains test
TryCandidate_Unchecked ==
    /\ UNCHANGED <<pvars, bvars, tvars, cvars>>
    /\ spc = "try"
    /\ attempts < MaxAttempts
    /\ \E o \in Annulus(min_distance) :
        LET active_point == points[active_indices[idx + 1] + 1]
            new_point == Pt(active_point.x + o[1], active_point.y + o[2])
        IN  IF is_point_valid(new_point)
            THEN /\ add_point(new_point)
                 /\ spc' = "pick"
                 /\ attempts' = 0
                 /\ idx' = 0
            ELSE /\ attempts' = attempts + 1
                 /\ UNCHANGED <<points, active_indices, grid, spc, idx>>
    /\ UNCHANGED <<polygon, min_distance, bounds, grid_width, grid_height, seed_tries, result>>

\* one iteration of the candidate loop (sampling.rs:96-117)
TryCandidate ==
    /\ UNCHANGED <<pvars, bvars, tvars, cvars>>
    /\ spc = "try"
    /\ attempts < MaxAttempts
    /\ \E o \in Annulus(min_distance) :
        LET active_point == points[active_indices[idx + 1] + 1]
            new_point == Pt(active_point.x + o[1], active_point.y + o[2])
        IN  IF InBounds(new_point) /\ CandidateAccepted(new_point)
            THEN /\ add_point(new_point)
                 /\ spc' = "pick"
                 /\ attempts' = 0
                 /\ idx' = 0
            ELSE /\ attempts' = attempts + 1
                 /\ UNCHANGED <<points, active_indices, grid, spc, idx>>
    /\ UNCHANGED <<polygon, min_distance, bounds, grid_width, grid_height, seed_tries, result>>

\* Retire without the swap_remove
Retire_NoRemove ==
    /\ UNCHANGED <<pvars, bvars, tvars, cvars>>
    /\ spc = "try"
    /\ attempts = MaxAttempts
    /\ spc' = "pick"
    /\ UNCHANGED <<polygon, min_distance, bounds, grid_width, grid_height, grid, points,
                   active_indices, seed_tries, idx, attempts, result>>

\* Retire as soon as one candidate has failed
Retire_Early ==
    /\ UNCHANGED <<pvars, bvars, tvars, cvars>>
    /\ spc = "try"
    /\ attempts >= 1
    /\ active_indices' = SwapRemove(active_indices, idx)
    /\ spc' = "pick"
    /\ attempts' = 0
    /\ idx' = 0
    /\ UNCHANGED <<polygon, min_distance, bounds, grid_width, grid_height, grid, points,
                   seed_tries, result>>

\* no candidate was accepted: the pivot leaves the frontier (sampling.rs:119-122)
Retire ==
    /\ UNCHANGED <<pvars, bvars, tvars, cvars>>
    /\ spc = "try"
    /\ attempts = MaxAttempts
    /\ active_indices' = SwapRemove(active_indices, idx)
    /\ spc' = "pick"
    /\ attempts' = 0
    /\ idx' = 0
    /\ UNCHANGED <<polygon, min_distance, bounds, grid_width, grid_height, grid, points,
                   seed_tries, result>>

\* Return without waiting for the frontier to empty
Return_WhileActive ==
    /\ UNCHANGED <<pvars, bvars, tvars, cvars>>
    /\ spc = "pick"
    /\ result' = points
    /\ spc' = "done"
    /\ UNCHANGED <<polygon, min_distance, bounds, grid_width, grid_height, grid, points,
                   active_indices, seed_tries, idx, attempts>>

\* the frontier is empty: self.points.clone() is returned (sampling.rs:87, 125)
Return ==
    /\ UNCHANGED <<pvars, bvars, tvars, cvars>>
    /\ spc = "pick"
    /\ active_indices = <<>>
    /\ result' = points
    /\ spc' = "done"
    /\ UNCHANGED <<polygon, min_distance, bounds, grid_width, grid_height, grid, points,
                   active_indices, seed_tries, idx, attempts>>

SamplerNext ==
    \/ SeedTry
    \/ SeedExhausted
    \/ SeedCheck
    \/ PickActive
    \/ TryCandidate
    \/ Retire
    \/ Return

(***************************************************************************)
(* Strings                                                                 *)
(*                                                                         *)
(* A string is a sequence of tokens.  The words POLYGON, MULTI, Polygon,   *)
(* EMPTY and NaN are one token each, every other token is one character;   *)
(* no pattern the program searches for can match across a part of a word,  *)
(* so searching tokens finds what searching bytes finds.                   *)
(***************************************************************************)
\* p occurs in s at position i (1-based)
MatchAt(s, p, i) ==
    /\ i + Len(p) - 1 <= Len(s)
    /\ \A k \in 1..Len(p) : s[i + k - 1] = p[k]

Occurrences(s, p) == {i \in 1..Len(s) : MatchAt(s, p, i)}

SetMin(S) == CHOOSE m \in S : \A n \in S : m <= n
SetMax(S) == CHOOSE m \in S : \A n \in S : m >= n

\* str::contains
StrContains(s, p) == Occurrences(s, p) # {}

\* str::find and str::rfind: the 1-based position of the first (last) match, 0 for None
StrFind(s, p) == IF Occurrences(s, p) = {} THEN 0 ELSE SetMin(Occurrences(s, p))
StrRFind(s, p) == IF Occurrences(s, p) = {} THEN 0 ELSE SetMax(Occurrences(s, p))

\* str::replace: every non-overlapping match, from the left
RECURSIVE StrReplace(_, _, _)
StrReplace(s, p, r) ==
    IF s = <<>> THEN <<>>
    ELSE IF MatchAt(s, p, 1) THEN r \o StrReplace(SubSeq(s, Len(p) + 1, Len(s)), p, r)
    ELSE <<s[1]>> \o StrReplace(SubSeq(s, 2, Len(s)), p, r)

\* str::split(pattern): the pieces between the matches, empty pieces included
RECURSIVE StrSplit(_, _)
StrSplit(s, p) ==
    LET i == StrFind(s, p)
    IN  IF i = 0 THEN <<s>>
        ELSE <<SubSeq(s, 1, i - 1)>> \o StrSplit(SubSeq(s, i + Len(p), Len(s)), p)

RECURSIVE DropEmpty(_)
DropEmpty(ws) ==
    IF ws = <<>> THEN <<>>
    ELSE IF ws[1] = <<>> THEN DropEmpty(Tail(ws))
    ELSE <<ws[1]>> \o DropEmpty(Tail(ws))

\* str::split_whitespace: the non-empty words between blanks
SplitWhitespace(s) == DropEmpty(StrSplit(s, <<" ">>))

\* str::trim
RECURSIVE TrimStart(_), TrimEnd(_)
TrimStart(s) == IF s # <<>> /\ s[1] = " " THEN TrimStart(Tail(s)) ELSE s
TrimEnd(s) == IF s # <<>> /\ s[Len(s)] = " " THEN TrimEnd(SubSeq(s, 1, Len(s) - 1)) ELSE s
Trim(s) == TrimEnd(TrimStart(s))

\* an f64: a number or NaN
Num(v) == [nan |-> FALSE, v |-> v]
NaN == [nan |-> TRUE, v |-> 0]

\* f64 ==: NaN equals nothing, itself included
FloatEq(a, b) == ~a.nan /\ ~b.nan /\ a.v = b.v

DigitChars == <<"0", "1", "2", "3", "4", "5", "6", "7", "8", "9">>

Digit(c) == (CHOOSE k \in 1..10 : DigitChars[k] = c) - 1

RECURSIVE DecimalValue(_)
DecimalValue(w) ==
    IF w = <<>> THEN 0 ELSE 10 * DecimalValue(SubSeq(w, 1, Len(w) - 1)) + Digit(w[Len(w)])

\* str::parse::<f64>: <<f>> for Ok(f), <<>> for Err
ParseF64(w) ==
    IF w = <<"NaN">> THEN <<NaN>>
    ELSE IF w # <<>> /\ \A k \in 1..Len(w) : w[k] \in {DigitChars[d] : d \in 1..10} THEN <<Num(DecimalValue(w))>>
    ELSE <<>>

Coord(x, y) == [x |-> x, y |-> y]

\* Coord ==
CoordEq(a, b) == FloatEq(a.x, b.x) /\ FloatEq(a.y, b.y)

\* geo's Polygon::new(exterior, vec![]): the exterior is closed if it is not closed
PolygonNew(coords) ==
    [exterior |-> IF coords # <<>> /\ ~CoordEq(coords[1], coords[Len(coords)])
                  THEN Append(coords, coords[1]) ELSE coords,
     interiors |-> <<>>]

\* "Ferme le polygone si necessaire" (utils.rs:121-123, 173-175)
CloseRing(coords) ==
    IF Len(coords) > 1 /\ ~CoordEq(coords[1], coords[Len(coords)])
    THEN Append(coords, coords[1]) ELSE coords

\* f64::MAX and f64::MIN, the largest and the smallest finite f64: the ends of
\* the number range of the model
F64_MAX == Num(2147483647)
F64_MIN == Num(0 - 2147483647)

\* f64 <=: false as soon as one side is NaN
FloatLe(a, b) == ~a.nan /\ ~b.nan /\ a.v <= b.v

\* f64::min and f64::max: when one argument is NaN the other one is returned
FloatMin(a, b) == IF a.nan THEN b ELSE IF b.nan THEN a ELSE IF a.v <= b.v THEN a ELSE b

\* FloatMax computed with min
FloatMax_AsMin(a, b) == FloatMin(a, b)

FloatMax(a, b) == IF a.nan THEN b ELSE IF b.nan THEN a ELSE IF a.v >= b.v THEN a ELSE b

\* the loop of calculate_polygon_bounds from coordinate i on (utils.rs:198-203)
RECURSIVE BoundsLoop(_, _, _)
BoundsLoop(coords, i, acc) ==
    IF i > Len(coords) THEN acc
    ELSE BoundsLoop(coords, i + 1,
            [min_x |-> FloatMin(acc.min_x, coords[i].x),
             min_y |-> FloatMin(acc.min_y, coords[i].y),
             max_x |-> FloatMax(acc.max_x, coords[i].x),
             max_y |-> FloatMax(acc.max_y, coords[i].y)])

calculate_polygon_bounds(poly) ==
    BoundsLoop(poly.exterior, 1,
               [min_x |-> F64_MAX, min_y |-> F64_MAX, max_x |-> F64_MIN, max_y |-> F64_MIN])

(***************************************************************************)
(* WKT parsing (utils.rs)                                                  *)
(***************************************************************************)
PolygonOpen == <<"POLYGON", "(", "(">>
MultiPolygonOpen == <<"MULTI", "POLYGON", "(", "(">>
MultiPolygonWord == <<"MULTI", "POLYGON">>
TransformedOpen == <<"Polygon", "(", "[", "(">>
TransformedClose == <<")", "]", ")">>

\* the truncation at the second ")])" (utils.rs:66-70)
Truncate(r) ==
    LET i == StrFind(r, TransformedClose)
    IN  IF i = 0 THEN r
        ELSE LET rest == StrFind(SubSeq(r, i + 3, Len(r)), TransformedClose)
             IN  IF rest = 0 THEN r ELSE SubSeq(r, 1, (i - 1) + 3 + (rest - 1) + 3)

transform_polygon_string(polygon_str) ==
    LET r1 == IF StrContains(polygon_str, PolygonOpen)
              THEN StrReplace(polygon_str, PolygonOpen, TransformedOpen) ELSE polygon_str
        r2 == IF StrContains(r1, MultiPolygonOpen)
              THEN StrReplace(r1, MultiPolygonOpen, TransformedOpen) ELSE r1
        r3 == StrReplace(r2, <<")", ")">>, TransformedClose)
        r4 == StrReplace(r3, <<")", ")">>, TransformedClose)
        r5 == StrReplace(r4, <<",">>, <<")", ",", "(">>)
        r6 == StrReplace(r5, <<" ">>, <<",">>)
    IN  Truncate(r6)

\* the coordinate of one pair of the fast path: <<c>>, or <<>> when the pair is
\* not two numbers (utils.rs:101-112)
FastPair(pair) ==
    LET parts == StrSplit(pair, <<",">>)
    IN  IF Len(parts) = 2
        THEN LET x == ParseF64(Trim(parts[1]))
                 y == ParseF64(Trim(parts[2]))
             IN  IF x # <<>> /\ y # <<>> THEN <<Coord(x[1], y[1])>> ELSE <<>>
        ELSE <<>>

\* FastCoords that skips a pair that is not two numbers instead of giving up
RECURSIVE FastCoords_SkipBadPair(_, _)
FastCoords_SkipBadPair(pairs, coords) ==
    IF pairs = <<>> THEN <<coords>>
    ELSE FastCoords_SkipBadPair(Tail(pairs), coords \o FastPair(pairs[1]))

\* the loop of extract_polygon_from_string: <<coords>>, or <<>> once a pair fails
RECURSIVE FastCoords(_, _)
FastCoords(pairs, coords) ==
    IF pairs = <<>> THEN <<coords>>
    ELSE IF FastPair(pairs[1]) = <<>> THEN <<>>
    ELSE FastCoords(Tail(pairs), coords \o FastPair(pairs[1]))

\* the pairs extract_polygon_from_string splits its argument into; <<>> when it
\* returns before splitting
FastPairs(str) ==
    IF ~StrContains(str, TransformedOpen) THEN <<>>
    ELSE LET start_idx == (StrFind(str, TransformedOpen) - 1) + Len(TransformedOpen)
             end_idx == IF StrRFind(str, TransformedClose) = 0 THEN Len(str)
                        ELSE StrRFind(str, TransformedClose) - 1
         IN  IF start_idx >= end_idx THEN <<>>
             ELSE StrSplit(SubSeq(str, start_idx + 1, end_idx), <<")", ",", "(">>)

\* <<polygon>> for Some(polygon), <<>> for None
extract_polygon_from_string(str) ==
    LET pairs == FastPairs(str)
    IN  IF pairs = <<>> THEN <<>>
        ELSE LET got == FastCoords(pairs, <<>>)
             IN  IF got = <<>> THEN <<>>
                 ELSE IF got[1] = <<>> THEN <<>>
                 ELSE <<PolygonNew(CloseRing(got[1]))>>

\* the coordinate of one token of the fallback: <<c>>, or <<>> when the token is
\* skipped with a warning (utils.rs:156-164)
WktPair(coord_pair) ==
    LET parts == SplitWhitespace(coord_pair)
    IN  IF Len(parts) = 2
        THEN LET x == ParseF64(parts[1])
                 y == ParseF64(parts[2])
             IN  IF x # <<>> /\ y # <<>> THEN <<Coord(x[1], y[1])>> ELSE <<>>
        ELSE <<>>

\* WktCoords that stops at the first token it cannot parse
RECURSIVE WktCoords_StopAtBad(_, _)
WktCoords_StopAtBad(tokens, coords) ==
    IF tokens = <<>> THEN coords
    ELSE IF WktPair(tokens[1]) = <<>> THEN coords
    ELSE WktCoords_StopAtBad(Tail(tokens), coords \o WktPair(tokens[1]))

\* the loop of parse_polygon_wkt (utils.rs:155-165)
RECURSIVE WktCoords(_, _)
WktCoords(tokens, coords) ==
    IF tokens = <<>> THEN coords
    ELSE WktCoords(Tail(tokens), coords \o WktPair(tokens[1]))

\* the comma-separated tokens of the cleaned string (utils.rs:144-152)
WktTokens(polygon_str) ==
    LET c1 == IF StrContains(polygon_str, PolygonOpen)
              THEN StrReplace(polygon_str, PolygonOpen, <<>>)
              ELSE IF StrContains(polygon_str, MultiPolygonOpen)
              THEN StrReplace(polygon_str, MultiPolygonOpen, <<>>)
              ELSE polygon_str
        c2 == StrReplace(c1, <<")", ")">>, <<>>)
    IN  StrSplit(c2, <<",">>)

\* [ok |-> TRUE, polygon |-> p] or [ok |-> FALSE, err |-> message]
parse_polygon_wkt(polygon_str) ==
    IF ~StrContains(polygon_str, PolygonOpen) /\ ~StrContains(polygon_str, MultiPolygonOpen)
    THEN [ok |-> FALSE, err |-> "Invalid format"]
    ELSE LET coords == WktCoords(WktTokens(polygon_str), <<>>)
         IN  IF coords = <<>> THEN [ok |-> FALSE, err |-> "Empty polygon"]
             ELSE [ok |-> TRUE, polygon |-> PolygonNew(CloseRing(coords))]

(***************************************************************************)
(* distribute_points_in_polygon up to the construction of the sampler      *)
(***************************************************************************)
\* the lines of the model: a head, up to MaxPairs comma-separated items, a tail
Heads ==
    { <<>>,
      PolygonOpen,
      <<"POLYGON", " ", "(", "(">>,
      <<"POLYGON", "(">>,
      <<"x", ";">> \o PolygonOpen,
      MultiPolygonOpen \o <<"(">>,
      MultiPolygonWord \o <<" ", "(", "(", "(">> }

Tails == { <<")", ")">>, <<")">>, <<")", ")", ")">>, <<>> }

Items ==
    { <<"0", " ", "0">>,
      <<"1", " ", "0">>,
      <<" ", "1", " ", "1">>,
      <<"x", " ", "0">>,
      <<"1">>,
      <<"NaN", " ", "0">> }

RECURSIVE JoinItems(_)
JoinItems(items) ==
    IF items = <<>> THEN <<>>
    ELSE IF Len(items) = 1 THEN items[1]
    ELSE items[1] \o <<",">> \o JoinItems(Tail(items))

\* the geometry texts of the specification's examples and of the WKT keywords
Examples ==
    { <<"POLYGON", "(", "(", "0", " ", "0", ",", " ", "1", "0", " ", "0", ",", " ", "1", "0", " ", "1", "0", ",", " ", "0", " ", "1", "0", ",", " ", "0", " ", "0", ")", ")">>,
      <<"POLYGON", "(", "(", "0", " ", "0", ",", " ", "1", "0", " ", "0", ",", " ", "1", "0", " ", "1", "0", ",", " ", "0", " ", "1", "0", ")", ")">>,
      <<"MULTI", "POLYGON", "(", "(", "(", "0", " ", "0", ",", "1", " ", "0", ",", "1", " ", "1", ",", "0", " ", "1", ",", "0", " ", "0", ")", ")", ")">>,
      <<"MULTI", "POLYGON", " ", "EMPTY">>,
      <<"POLYGON", " ", "EMPTY">>,
      <<"MULTI", "POLYGON", " ">>,
      <<"POLYGON", "(", "(", "0", " ", "0", ",", "1", "0", " ", "0", ",", "1", "0", " ", "1", "0", ",", "0", " ", "1", "0", ",", "0", " ", "0", ")", ")">> }

Lines ==
    {h \o JoinItems(b) \o t :
        h \in Heads, b \in UNION {[1..n -> Items] : n \in 0..MaxPairs}, t \in Tails}
    \cup Examples

\* no sampler has been constructed
SamplerIdle ==
    /\ polygon = <<>>
    /\ min_distance = 1
    /\ bounds = [min_x |-> 0, min_y |-> 0, max_x |-> 0, max_y |-> 0]
    /\ grid_width = 1
    /\ grid_height = 1
    /\ grid = [i \in 0..0 |-> NoneIdx]
    /\ points = <<>>
    /\ active_indices = <<>>
    /\ spc = "idle"
    /\ seed_tries = 0
    /\ idx = 0
    /\ attempts = 0
    /\ result = <<>>

\* distribute_points_in_polygon is entered with a line
ParseInit ==
    /\ line \in Lines
    /\ ppc = "start"
    /\ modified_str = <<>>
    /\ maybe_polygon = <<>>
    /\ parsed = <<>>
    /\ via_fallback = FALSE
    /\ perr = "none"
    /\ pbounds = <<>>

\* CheckFormat without the test for the POLYGON(( marker
CheckFormat_NoMarkerTest ==
    /\ UNCHANGED <<svars, bvars, tvars, cvars>>
    /\ ppc = "start"
    /\ IF StrContains(line, MultiPolygonWord)
       THEN /\ perr' = "MULTIPOLYGON"
            /\ ppc' = "err"
       ELSE /\ ppc' = "transform"
            /\ UNCHANGED perr
    /\ UNCHANGED <<line, modified_str, maybe_polygon, parsed, via_fallback, pbounds>>

\* the two format tests (processing.rs:189-195)
CheckFormat ==
    /\ UNCHANGED <<svars, bvars, tvars, cvars>>
    /\ ppc = "start"
    /\ IF ~StrContains(line, PolygonOpen) /\ ~StrContains(line, MultiPolygonOpen)
       THEN /\ perr' = "Probleme(3)"
            /\ ppc' = "err"
       ELSE IF StrContains(line, MultiPolygonWord)
       THEN /\ perr' = "MULTIPOLYGON"
            /\ ppc' = "err"
       ELSE /\ ppc' = "transform"
            /\ UNCHANGED perr
    /\ UNCHANGED <<line, modified_str, maybe_polygon, parsed, via_fallback, pbounds>>

\* transform_polygon_string then extract_polygon_from_string (processing.rs:198-199)
FastPath ==
    /\ UNCHANGED <<svars, bvars, tvars, cvars>>
    /\ ppc = "transform"
    /\ modified_str' = transform_polygon_string(line)
    /\ maybe_polygon' = extract_polygon_from_string(transform_polygon_string(line))
    /\ ppc' = "match"
    /\ UNCHANGED <<line, parsed, via_fallback, perr, pbounds>>

\* Some(p) => p (processing.rs:200-201)
MatchSome ==
    /\ UNCHANGED <<svars, bvars, tvars, cvars>>
    /\ ppc = "match"
    /\ maybe_polygon # <<>>
    /\ parsed' = maybe_polygon
    /\ ppc' = "sample"
    /\ UNCHANGED <<line, modified_str, maybe_polygon, via_fallback, perr, pbounds>>

\* None => parse_polygon_wkt(polygon_str)? (processing.rs:202)
Fallback ==
    /\ UNCHANGED <<svars, bvars, tvars, cvars>>
    /\ ppc = "match"
    /\ maybe_polygon = <<>>
    /\ via_fallback' = TRUE
    /\ LET r == parse_polygon_wkt(line)
       IN  IF r.ok
           THEN /\ parsed' = <<r.polygon>>
                /\ ppc' = "sample"
                /\ UNCHANGED perr
           ELSE /\ perr' = r.err
                /\ ppc' = "err"
                /\ UNCHANGED parsed
    /\ UNCHANGED <<line, modified_str, maybe_polygon, pbounds>>

\* let bounds = calculate_polygon_bounds(&polygon) (processing.rs:205-206)
ComputeBounds ==
    /\ UNCHANGED <<svars, bvars, tvars, cvars>>
    /\ ppc = "sample"
    /\ pbounds = <<>>
    /\ pbounds' = <<calculate_polygon_bounds(parsed[1])>>
    /\ UNCHANGED <<line, ppc, modified_str, maybe_polygon, parsed, via_fallback, perr>>

ParseNext ==
    \/ CheckFormat
    \/ FastPath
    \/ MatchSome
    \/ Fallback
    \/ ComputeBounds

(***************************************************************************)
(* generate_vegetation_from_csv and process_vegetation_data                *)
(*                                                                         *)
(* The sampler variables hold the sampler constructed last: a sampler that *)
(* went out of scope stays in them until the next one is constructed.      *)
(* Failures of the file system (open, read, write) are not modelled.       *)
(***************************************************************************)
NewLine == <<"\n">>

\* count_file_rows on the content of the file (utils.rs:21-26)
count_file_rows(c) ==
    LET ls == StrSplit(c, NewLine)
    IN  IF Len(ls) > 1 THEN Len(ls) - 1 ELSE 0

Header == <<"w", "k", "t", ";", "i", "d">>

\* the data lines of the model
LineRect ==
    <<"POLYGON", "(", "(", "0", " ", "0", ",", "4", " ", "0", ",", "4", " ", "2", ",",
      "0", " ", "2", ",", "0", " ", "0", ")", ")">>
LineTri ==
    <<"POLYGON", "(", "(", "1", "0", " ", "1", "0", ",", "1", "4", " ", "1", "0", ",",
      "1", "0", " ", "1", "4", ",", "1", "0", " ", "1", "0", ")", ")">>
LineFlat ==
    <<"POLYGON", "(", "(", "1", " ", "1", ",", "4", " ", "1", ",", "1", " ", "1", ")", ")">>
LineMulti ==
    <<"MULTI", "POLYGON", "(", "(", "(", "0", " ", "0", ",", "1", " ", "0", ",", "0", " ", "0",
      ")", ")", ")">>
LineBad == <<"POLYGON", "(", "(", "x", " ", "0", ")", ")">>
LineText == <<"x", ";", "y">>
LineEmpty == <<>>

DataLineKinds == {LineRect, LineTri, LineFlat, LineMulti, LineBad, LineText, LineEmpty}

RECURSIVE JoinLines(_)
JoinLines(ls) ==
    IF ls = <<>> THEN <<>>
    ELSE IF Len(ls) = 1 THEN ls[1]
    ELSE ls[1] \o NewLine \o JoinLines(Tail(ls))

\* the input files of the model: nothing, a header alone, or a header and up to
\* MaxLines further lines; a file whose last line is LineEmpty ends with a newline
Files ==
    {<<>>, Header}
    \cup {Header \o NewLine \o JoinLines(ls) :
            ls \in UNION {[1..n -> DataLineKinds] : n \in 1..MaxLines}}

\* the parameters of a batch
BatchParams == {[density |-> 2, variation |-> v] : v \in {0, 2}}

\* the shared state a batch finds: as constructed, or as an earlier batch left it
PriorStates ==
    { [processed_rows |-> 0, total_rows |-> 0, created_items |-> 0, errors |-> <<>>],
      [processed_rows |-> 2, total_rows |-> 3, created_items |-> 1,
       errors |-> <<[text |-> "No polygon data in line", n |-> 1, msg |-> "none"]>>] }

\* no batch is running
BatchIdle ==
    /\ processed_rows = 0
    /\ total_rows = 0
    /\ created_items = 0
    /\ errors = <<>>
    /\ content = <<>>
    /\ params = [density |-> 1, variation |-> 0]
    /\ bpc = "idle"
    /\ lines = <<>>
    /\ line_idx = 0
    /\ row_index = 0
    /\ out_points = <<>>
    /\ written = 0

\* generate_vegetation_from_csv is entered
BatchInit ==
    /\ \E st \in PriorStates :
        /\ processed_rows = st.processed_rows
        /\ total_rows = st.total_rows
        /\ created_items = st.created_items
        /\ errors = st.errors
    /\ content \in Files
    /\ params \in BatchParams
    /\ bpc = "reset"
    /\ lines = <<>>
    /\ line_idx = 0
    /\ row_index = 0
    /\ out_points = <<>>
    /\ written = 0

\* the resets of processing.rs:36-39 without errors.clear()
ResetState_KeepErrors ==
    /\ UNCHANGED <<svars, pvars, tvars, cvars>>
    /\ bpc = "reset"
    /\ processed_rows' = 0
    /\ created_items' = 0
    /\ errors' = errors
    /\ bpc' = "count"
    /\ UNCHANGED <<total_rows, content, params, lines, line_idx, row_index, out_points, written>>

\* "Reinitialise l'etat du traitement" (processing.rs:36-39)
ResetState ==
    /\ UNCHANGED <<svars, pvars, tvars, cvars>>
    /\ bpc = "reset"
    /\ processed_rows' = 0
    /\ created_items' = 0
    /\ errors' = <<>>
    /\ bpc' = "count"
    /\ UNCHANGED <<total_rows, content, params, lines, line_idx, row_index, out_points, written>>

\* total_rows is set from count_file_rows (processing.rs:41-46)
CountRows ==
    /\ UNCHANGED <<svars, pvars, tvars, cvars>>
    /\ bpc = "count"
    /\ total_rows' = count_file_rows(content)
    /\ bpc' = "open"
    /\ UNCHANGED <<processed_rows, created_items, errors, content, params, lines, line_idx,
                   row_index, out_points, written>>

\* the input is read and split, the output is created with its header (processing.rs:94-108)
OpenFiles ==
    /\ UNCHANGED <<svars, pvars, tvars, cvars>>
    /\ bpc = "open"
    /\ lines' = StrSplit(content, NewLine)
    /\ row_index' = 0
    /\ line_idx' = 1
    /\ written' = 0
    /\ bpc' = "loop"
    /\ UNCHANGED <<processed_rows, total_rows, created_items, errors, content, params, out_points>>

\* if line.trim().is_empty() { continue; } (processing.rs:110-113)
SkipBlank ==
    /\ UNCHANGED <<svars, pvars, tvars, cvars>>
    /\ bpc = "loop"
    /\ line_idx < Len(lines)
    /\ Trim(lines[line_idx + 1]) = <<>>
    /\ line_idx' = line_idx + 1
    /\ UNCHANGED <<processed_rows, total_rows, created_items, errors, content, params, bpc,
                   lines, row_index, out_points, written>>

\* the line holds neither POLYGON nor MULTIPOLYGON (processing.rs:116, 154-160)
NoPolygonData ==
    /\ UNCHANGED <<svars, pvars, tvars, cvars>>
    /\ bpc = "loop"
    /\ line_idx < Len(lines)
    /\ Trim(lines[line_idx + 1]) # <<>>
    /\ ~ (StrContains(lines[line_idx + 1], <<"POLYGON">>)
            \/ StrContains(lines[line_idx + 1], MultiPolygonWord))
    /\ errors' = Append(errors, [text |-> "No polygon data in line", n |-> line_idx, msg |-> "none"])
    /\ bpc' = "advance"
    /\ UNCHANGED <<processed_rows, total_rows, created_items, content, params, lines, line_idx,
                   row_index, out_points, written>>

\* distribute_points_in_polygon is called with the line (processing.rs:116-117, 186-187)
CallDistribute ==
    /\ UNCHANGED <<svars, tvars, cvars>>
    /\ bpc = "loop"
    /\ line_idx < Len(lines)
    /\ Trim(lines[line_idx + 1]) # <<>>
    /\ \/ StrContains(lines[line_idx + 1], <<"POLYGON">>)
       \/ StrContains(lines[line_idx + 1], MultiPolygonWord)
    /\ line' = lines[line_idx + 1]
    /\ ppc' = "start"
    /\ modified_str' = <<>>
    /\ maybe_polygon' = <<>>
    /\ parsed' = <<>>
    /\ via_fallback' = FALSE
    /\ perr' = "none"
    /\ pbounds' = <<>>
    /\ out_points' = <<>>
    /\ bpc' = "call"
    /\ UNCHANGED <<processed_rows, total_rows, created_items, errors, content, params, lines,
                   line_idx, row_index, written>>

\* the ring of a parsed polygon as lattice points
LatticeRing(poly) ==
    [k \in 1..Len(poly.exterior) |-> Pt(poly.exterior[k].x.v, poly.exterior[k].y.v)]

\* NewSampler that keeps the lists of the sampler constructed before
NewSampler_Reuse ==
    /\ bpc = "call"
    /\ ppc = "sample"
    /\ pbounds # <<>>
    /\ LET b == [min_x |-> pbounds[1].min_x.v, min_y |-> pbounds[1].min_y.v,
                 max_x |-> pbounds[1].max_x.v, max_y |-> pbounds[1].max_y.v]
           gw == GridDim(b.max_x - b.min_x, params.density)
           gh == GridDim(b.max_y - b.min_y, params.density)
       IN  /\ polygon' = LatticeRing(parsed[1])
           /\ min_distance' = params.density
           /\ bounds' = b
           /\ grid_width' = gw
           /\ grid_height' = gh
           /\ grid' = [i \in 0..(gw * gh - 1) |-> NoneIdx]
           /\ points' = points
           /\ active_indices' = active_indices
    /\ spc' = "seed"
    /\ seed_tries' = 0
    /\ idx' = 0
    /\ attempts' = 0
    /\ result' = <<>>
    /\ ppc' = "sampling"
    /\ UNCHANGED <<line, modified_str, maybe_polygon, parsed, via_fallback, perr, pbounds>>
    /\ UNCHANGED <<bvars, tvars, cvars>>

\* SpatialDistributionSampler::new(params.density, bounds) and the entry of
\* generate_distribution (processing.rs:208-210, sampling.rs:33-56)
NewSampler ==
    /\ bpc = "call"
    /\ ppc = "sample"
    /\ pbounds # <<>>
    /\ LET b == [min_x |-> pbounds[1].min_x.v, min_y |-> pbounds[1].min_y.v,
                 max_x |-> pbounds[1].max_x.v, max_y |-> pbounds[1].max_y.v]
           gw == GridDim(b.max_x - b.min_x, params.density)
           gh == GridDim(b.max_y - b.min_y, params.density)
       IN  /\ polygon' = LatticeRing(parsed[1])
           /\ min_distance' = params.density
           /\ bounds' = b
           /\ grid_width' = gw
           /\ grid_height' = gh
           /\ grid' = [i \in 0..(gw * gh - 1) |-> NoneIdx]
           /\ points' = <<>>
           /\ active_indices' = <<>>
    /\ spc' = "seed"
    /\ seed_tries' = 0
    /\ idx' = 0
    /\ attempts' = 0
    /\ result' = <<>>
    /\ ppc' = "sampling"
    /\ UNCHANGED <<line, modified_str, maybe_polygon, parsed, via_fallback, perr, pbounds>>
    /\ UNCHANGED <<bvars, tvars, cvars>>

\* JitterOffsets with distance <= variation
JitterOffsets_Closed(v) ==
    IF v > 0
    THEN {o \in ((0 - v)..v) \X ((0 - v)..v) : o[1] * o[1] + o[2] * o[2] <= v * v}
    ELSE {<<0, 0>>}

\* the offsets distance * (cos angle, sin angle), distance = random::<f64>() * variation
\* in [0, variation), on the lattice; (0, 0) when variation is not positive
\* (processing.rs:220-226)
JitterOffsets(v) ==
    IF v > 0
    THEN {o \in ((0 - v)..v) \X ((0 - v)..v) : o[1] * o[1] + o[2] * o[2] < v * v}
    ELSE {<<0, 0>>}

\* one iteration of the loop over sampled_points (processing.rs:217-237)
Jitter ==
    /\ UNCHANGED <<svars, pvars, tvars, cvars>>
    /\ bpc = "call"
    /\ ppc = "sampling"
    /\ spc = "done"
    /\ Len(out_points) < Len(result)
    /\ \E o \in JitterOffsets(params.variation) :
        LET point == result[Len(out_points) + 1]
        IN  out_points' = Append(out_points, Pt(point.x + o[1], point.y + o[2]))
    /\ UNCHANGED <<processed_rows, total_rows, created_items, errors, content, params, bpc,
                   lines, line_idx, row_index, written>>

\* Ok(points) is returned to the loop (processing.rs:239, 117-118)
DistributeOk ==
    /\ UNCHANGED <<svars, tvars, cvars>>
    /\ bpc = "call"
    /\ ppc = "sampling"
    /\ spc = "done"
    /\ Len(out_points) = Len(result)
    /\ line' = <<>>
    /\ ppc' = "idle"
    /\ modified_str' = <<>>
    /\ maybe_polygon' = <<>>
    /\ parsed' = <<>>
    /\ via_fallback' = FALSE
    /\ perr' = "none"
    /\ pbounds' = <<>>
    /\ bpc' = "write"
    /\ UNCHANGED <<processed_rows, total_rows, created_items, errors, content, params, lines,
                   line_idx, row_index, out_points, written>>

\* every point row is written to the output (processing.rs:119-123)
WriteRows ==
    /\ UNCHANGED <<svars, pvars, tvars, cvars>>
    /\ bpc = "write"
    /\ written' = written + Len(out_points)
    /\ bpc' = "account"
    /\ UNCHANGED <<processed_rows, total_rows, created_items, errors, content, params, lines,
                   line_idx, row_index, out_points>>

\* Account that counts an empty result as one item
Account_AtLeastOne ==
    /\ UNCHANGED <<svars, pvars, tvars, cvars>>
    /\ bpc = "account"
    /\ created_items' = created_items + Max2(1, Len(out_points))
    /\ out_points' = <<>>
    /\ bpc' = "advance"
    /\ UNCHANGED <<processed_rows, total_rows, errors, content, params, lines, line_idx,
                   row_index, written>>

\* *created_items += points.len() (processing.rs:125-144)
Account ==
    /\ UNCHANGED <<svars, pvars, tvars, cvars>>
    /\ bpc = "account"
    /\ created_items' = created_items + Len(out_points)
    /\ out_points' = <<>>
    /\ bpc' = "advance"
    /\ UNCHANGED <<processed_rows, total_rows, errors, content, params, lines, line_idx,
                   row_index, written>>

\* DistributeErr that gives the error up to the caller of the loop
DistributeErr_Abort ==
    /\ UNCHANGED <<svars, tvars, cvars>>
    /\ bpc = "call"
    /\ ppc = "err"
    /\ errors' = Append(errors, [text |-> "Error at row", n |-> row_index, msg |-> perr])
    /\ line' = <<>>
    /\ ppc' = "idle"
    /\ modified_str' = <<>>
    /\ maybe_polygon' = <<>>
    /\ parsed' = <<>>
    /\ via_fallback' = FALSE
    /\ perr' = "none"
    /\ pbounds' = <<>>
    /\ bpc' = "returned"
    /\ UNCHANGED <<processed_rows, total_rows, created_items, content, params, lines, line_idx,
                   row_index, out_points, written>>

\* Err(e) is returned to the loop and recorded (processing.rs:145-152)
DistributeErr ==
    /\ UNCHANGED <<svars, tvars, cvars>>
    /\ bpc = "call"
    /\ ppc = "err"
    /\ errors' = Append(errors, [text |-> "Error at row", n |-> row_index, msg |-> perr])
    /\ line' = <<>>
    /\ ppc' = "idle"
    /\ modified_str' = <<>>
    /\ maybe_polygon' = <<>>
    /\ parsed' = <<>>
    /\ via_fallback' = FALSE
    /\ perr' = "none"
    /\ pbounds' = <<>>
    /\ bpc' = "advance"
    /\ UNCHANGED <<processed_rows, total_rows, created_items, content, params, lines, line_idx,
                   row_index, out_points, written>>

\* row_index += 1; *processed_rows = row_index; and the next line (processing.rs:162-165)
Advance ==
    /\ UNCHANGED <<svars, pvars, tvars, cvars>>
    /\ bpc = "advance"
    /\ row_index' = row_index + 1
    /\ processed_rows' = row_index + 1
    /\ line_idx' = line_idx + 1
    /\ bpc' = "loop"
    /\ UNCHANGED <<total_rows, created_items, errors, content, params, lines, out_points, written>>

\* the lines are exhausted: Ok(()) (processing.rs:110, 167)
LoopEnd ==
    /\ UNCHANGED <<svars, pvars, tvars, cvars>>
    /\ bpc = "loop"
    /\ line_idx >= Len(lines)
    /\ bpc' = "returned"
    /\ UNCHANGED <<processed_rows, total_rows, created_items, errors, content, params, lines,
                   line_idx, row_index, out_points, written>>

DriverNext ==
    \/ ResetState
    \/ CountRows
    \/ OpenFiles
    \/ SkipBlank
    \/ NoPolygonData
    \/ CallDistribute
    \/ NewSampler
    \/ Jitter
    \/ DistributeOk
    \/ WriteRows
    \/ Account
    \/ DistributeErr
    \/ Advance
    \/ LoopEnd

BatchNext == DriverNext \/ ParseNext \/ SamplerNext

(***************************************************************************)
(* Settings store and the set_user_vegetation_params command               *)
(***************************************************************************)
\* the vegetation types and densities a caller passes (i8 and f64)
VegetationTypes == (0 - 1)..2
Densities == (0 - 1)..2

\* Settings::set_user_vegetation_params (models/settings.rs:308-331): the value it
\* returns and the rows of the table afterwards; db_ok is whether the connection
\* and the INSERT OR REPLACE succeed
StoreSetUserParams(rows, vegetation_type, p, db_ok) ==
    IF vegetation_type < 1 THEN [ret |-> "InvalidVegetationType", rows |-> rows]
    ELSE IF p.density < 0 THEN [ret |-> "InvalidPath", rows |-> rows]
    ELSE IF ~db_ok THEN [ret |-> "Database", rows |-> rows]
    ELSE [ret |-> "Ok",
          rows |-> {r \in rows : r.vegetation_type # vegetation_type}
                     \cup {[vegetation_type |-> vegetation_type, density |-> p.density,
                            type_value |-> p.type_value]}]

\* the vegetation types a user entry can exist for
UserTypes == {t \in VegetationTypes : t >= 1}

\* Settings::create_default_vegetation_params (models/settings.rs:145-172), the rows
\* initialize_default_values inserts into default_vegetation_params
DefaultRows ==
    { [vegetation_type |-> 1, density |-> 28, type_value |-> 10],
      [vegetation_type |-> 2, density |-> 5, type_value |-> 20],
      [vegetation_type |-> 3, density |-> 3, type_value |-> 30] }

\* SELECT ... WHERE vegetation_type = ?1 with the columns read as u8, f64, u8:
\* <<row>> when the query gives Ok, <<>> otherwise
QueryRow(rows, vegetation_type) ==
    IF \E r \in rows : /\ r.vegetation_type = vegetation_type
                       /\ r.vegetation_type \in 0..255
                       /\ r.type_value \in 0..255
    THEN <<CHOOSE r \in rows : r.vegetation_type = vegetation_type>>
    ELSE <<>>

\* get_vegetation_params asking the default table before the user table
get_vegetation_params_DefaultFirst(user_rows, default_rows, vegetation_type, db_ok) ==
    IF ~db_ok THEN [ret |-> "Database", value |-> <<>>]
    ELSE IF QueryRow(default_rows, vegetation_type) # <<>>
    THEN [ret |-> "Ok", value |-> QueryRow(default_rows, vegetation_type)]
    ELSE [ret |-> "Ok", value |-> QueryRow(user_rows, vegetation_type)]

\* Settings::get_vegetation_params (models/settings.rs:229-260); value is <<>> for
\* None and <<params>> for Some(params)
get_vegetation_params(user_rows, default_rows, vegetation_type, db_ok) ==
    IF ~db_ok THEN [ret |-> "Database", value |-> <<>>]
    ELSE IF QueryRow(user_rows, vegetation_type) # <<>>
    THEN [ret |-> "Ok", value |-> QueryRow(user_rows, vegetation_type)]
    ELSE [ret |-> "Ok", value |-> QueryRow(default_rows, vegetation_type)]

\* Settings::get_default_vegetation_params (models/settings.rs:262-283)
get_default_vegetation_params(default_rows, vegetation_type) ==
    QueryRow(default_rows, vegetation_type)

\* the paths handed to set_export_path: two directories, a file and a path that
\* does not exist
Directories == {"/exports", "/data"}
PlainFiles == {"/data/in.csv"}
Paths == Directories \cup PlainFiles \cup {"/nowhere"}

\* set_export_path without the is_dir test
StoreSetExportPath_NoDirTest(current, path, db_ok) ==
    IF path \notin Directories \cup PlainFiles THEN [ret |-> "InvalidPath", value |-> current]
    ELSE IF ~db_ok THEN [ret |-> "Database", value |-> current]
    ELSE [ret |-> "Ok", value |-> path]

\* Settings::set_export_path (models/settings.rs:206-227): the value it returns and
\* the stored export path afterwards
StoreSetExportPath(current, path, db_ok) ==
    IF path \notin Directories \cup PlainFiles THEN [ret |-> "InvalidPath", value |-> current]
    ELSE IF path \notin Directories THEN [ret |-> "InvalidPath", value |-> current]
    ELSE IF ~db_ok THEN [ret |-> "Database", value |-> current]
    ELSE [ret |-> "Ok", value |-> path]

\* none of get_vegetation_params, remove_user_vegetation_params and
\* reset_user_vegetation_params has just returned
NoResult == [op |-> "none", vegetation_type |-> 0, ret |-> "none", value |-> <<>>]

\* no set_export_path call has just returned
NoExportCall == [path |-> "", ret |-> "none"]

\* no set_user_vegetation_params command has just returned
NoCommand == [vegetation_type |-> 0, density |-> 0]

\* history: no user parameters were ever set for the type
NeverSet == [state |-> "never", density |-> 0, type_value |-> 0]

\* the fields of VegetationProcessingState, each behind its own Mutex (models.rs:16-21)
Mutexes == {"processed_rows", "total_rows", "created_items", "errors"}

\* a VegetationProgressInfo none of whose fields has been read yet
NoSnapshot == [current_row |-> 0 - 1, total_rows |-> 0 - 1, created_items |-> 0 - 1, errors |-> <<>>]

\* the second invocation before it is called
NoOther == [pc |-> "idle", content |-> <<>>, line_idx |-> 0, row_index |-> 0,
            points_len |-> 0, written |-> 0]

\* no vegetation-progress event has been emitted
NoReport == [current_row |-> 0 - 1]

\* every mutex is free, get_vegetation_progress is not running, there is no second
\* invocation, and the state is as VegetationProcessingState::new leaves it
\* (models/processing.rs:47-57)
ProgressIdle ==
    /\ mutex = [m \in Mutexes |-> "free"]
    /\ rpc = "idle"
    /\ snapshot = NoSnapshot
    /\ points_len = 0
    /\ row_items = <<>>
    /\ other = NoOther
    /\ start_time = "None"
    /\ end_time = "None"
    /\ emitted = NoReport

\* a database without user parameters, no command called yet
SettingsIdle ==
    /\ user_vegetation_params = {}
    /\ store_ret = "none"
    /\ cmd_ret = "none"
    /\ cmd_args = NoCommand
    /\ default_vegetation_params = DefaultRows
    /\ export_path = "default"
    /\ fetched = NoResult
    /\ export_call = NoExportCall
    /\ last_set = [t \in UserTypes |-> NeverSet]

\* the command set_user_vegetation_params (models/vegetations.rs:42-51): the result
\* of the store is bound to _ and Ok(()) is returned
SetUserVegetationParams ==
    /\ UNCHANGED <<svars, pvars, bvars, cvars>>
    /\ \E vegetation_type \in VegetationTypes, density \in Densities, db_ok \in BOOLEAN :
        LET r == StoreSetUserParams(user_vegetation_params, vegetation_type,
                                    [density |-> density, type_value |-> 10], db_ok)
        IN  /\ user_vegetation_params' = r.rows
            /\ store_ret' = r.ret
            /\ cmd_args' = [vegetation_type |-> vegetation_type, density |-> density]
            /\ last_set' = IF r.ret = "Ok"
                           THEN [last_set EXCEPT ![vegetation_type] =
                                    [state |-> "set", density |-> density, type_value |-> 10]]
                           ELSE last_set
    /\ cmd_ret' = "Ok"
    /\ fetched' = NoResult
    /\ export_call' = NoExportCall
    /\ UNCHANGED <<default_vegetation_params, export_path>>

\* Settings::remove_user_vegetation_params (models/settings.rs:333-345)
RemoveUserVegetationParams ==
    /\ UNCHANGED <<svars, pvars, bvars, cvars>>
    /\ \E vegetation_type \in VegetationTypes, db_ok \in BOOLEAN :
        IF db_ok
        THEN /\ user_vegetation_params' =
                    {r \in user_vegetation_params : r.vegetation_type # vegetation_type}
             /\ fetched' = [op |-> "remove_user_vegetation_params",
                            vegetation_type |-> vegetation_type, ret |-> "Ok",
                            value |-> QueryRow(user_vegetation_params, vegetation_type)]
             /\ last_set' = [t \in UserTypes |->
                                IF t = vegetation_type /\ last_set[t].state = "set"
                                THEN [last_set[t] EXCEPT !.state = "removed"]
                                ELSE last_set[t]]
        ELSE /\ fetched' = [op |-> "remove_user_vegetation_params",
                            vegetation_type |-> vegetation_type, ret |-> "Database",
                            value |-> <<>>]
             /\ UNCHANGED <<user_vegetation_params, last_set>>
    /\ store_ret' = "none"
    /\ cmd_ret' = "none"
    /\ cmd_args' = NoCommand
    /\ export_call' = NoExportCall
    /\ UNCHANGED <<default_vegetation_params, export_path>>

\* Settings::reset_user_vegetation_params (models/settings.rs:347-351)
ResetUserVegetationParams ==
    /\ UNCHANGED <<svars, pvars, bvars, cvars>>
    /\ \E db_ok \in BOOLEAN :
        IF db_ok
        THEN /\ user_vegetation_params' = {}
             /\ fetched' = [NoResult EXCEPT !.op = "reset_user_vegetation_params",
                                            !.ret = "Ok"]
             /\ last_set' = [t \in UserTypes |->
                                IF last_set[t].state = "set"
                                THEN [last_set[t] EXCEPT !.state = "removed"]
                                ELSE last_set[t]]
        ELSE /\ fetched' = [NoResult EXCEPT !.op = "reset_user_vegetation_params",
                                            !.ret = "Database"]
             /\ UNCHANGED <<user_vegetation_params, last_set>>
    /\ store_ret' = "none"
    /\ cmd_ret' = "none"
    /\ cmd_args' = NoCommand
    /\ export_call' = NoExportCall
    /\ UNCHANGED <<default_vegetation_params, export_path>>

\* Settings::get_vegetation_params is called (models/settings.rs:229-260)
GetVegetationParams ==
    /\ UNCHANGED <<svars, pvars, bvars, cvars>>
    /\ \E vegetation_type \in VegetationTypes, db_ok \in BOOLEAN :
        LET r == get_vegetation_params(user_vegetation_params, default_vegetation_params,
                                       vegetation_type, db_ok)
        IN  fetched' = [op |-> "get_vegetation_params", vegetation_type |-> vegetation_type,
                        ret |-> r.ret, value |-> r.value]
    /\ store_ret' = "none"
    /\ cmd_ret' = "none"
    /\ cmd_args' = NoCommand
    /\ export_call' = NoExportCall
    /\ UNCHANGED <<user_vegetation_params, default_vegetation_params, export_path, last_set>>

\* Settings::set_export_path is called (models/settings.rs:206-227)
SetExportPath ==
    /\ UNCHANGED <<svars, pvars, bvars, cvars>>
    /\ \E path \in Paths, db_ok \in BOOLEAN :
        LET r == StoreSetExportPath(export_path, path, db_ok)
        IN  /\ export_path' = r.value
            /\ export_call' = [path |-> path, ret |-> r.ret]
    /\ store_ret' = "none"
    /\ cmd_ret' = "none"
    /\ cmd_args' = NoCommand
    /\ fetched' = NoResult
    /\ UNCHANGED <<user_vegetation_params, default_vegetation_params, last_set>>

SettingsNext ==
    \/ SetUserVegetationParams
    \/ RemoveUserVegetationParams
    \/ ResetUserVegetationParams
    \/ GetVegetationParams
    \/ SetExportPath

SettingsSpecInit == SettingsIdle /\ SamplerIdle /\ ParseIdle /\ BatchIdle /\ ProgressIdle

SettingsSpec == SettingsSpecInit /\ [][SettingsNext]_vars

BatchSpecInit == BatchInit /\ ParseIdle /\ SamplerIdle /\ SettingsIdle /\ ProgressIdle

BatchSpec == BatchSpecInit /\ [][BatchNext]_vars

ParseSpecInit == ParseInit /\ SamplerIdle /\ BatchIdle /\ SettingsIdle /\ ProgressIdle

ParseSpec == ParseSpecInit /\ [][ParseNext]_vars

Init == SamplerInit /\ ParseIdle /\ BatchIdle /\ SettingsIdle /\ ProgressIdle

Spec == Init /\ [][SamplerNext]_vars

\* generate_distribution runs on one thread and never blocks: it always takes its next step
LiveSpec == Spec /\ WF_vars(SamplerNext)

(***************************************************************************)
(* Properties of the sampler                                               *)
(***************************************************************************)
\* the lattice positions of the bounding box, its border included
BoxLattice ==
    {Pt(x, y) : x \in bounds.min_x..bounds.max_x, y \in bounds.min_y..bounds.max_y}

\* C1: any two distinct accepted points are at Euclidean distance >= min_distance,
\* in every state of generate_distribution and in the list it returns.
SpacingInvariant ==
    \A i, j \in 1..Len(points) :
        i # j => DistSq(points[i], points[j]) >= min_distance * min_distance

\* C2: every accepted point, the seed and every later one, satisfies the polygon
\* containment predicate.
ContainmentInvariant ==
    \A i \in 1..Len(points) : PolyContains(polygon, points[i])

ContainmentWitness ==
    /\ Len(points) >= 2
    /\ \A i \in 1..Len(points) : PolyContains(polygon, points[i])

\* an iteration of the growth loop ends: a point was registered or the pivot was retired
IterationEnds == spc = "try" /\ spc' = "pick"

\* C3: generate_distribution reaches its return under every sequence of draws;
\* each iteration of the growth loop either registers exactly one new point (which
\* joins the frontier) or removes exactly one index from the frontier, and the
\* number of registered points never exceeds the number of grid cells.
Termination ==
    /\ <>(spc = "done")
    /\ [](Len(points) <= grid_width * grid_height)
    /\ [][IterationEnds =>
            \/ /\ Len(points') = Len(points) + 1
               /\ Len(active_indices') = Len(active_indices) + 1
            \/ /\ points' = points
               /\ Len(active_indices') = Len(active_indices) - 1]_vars

TerminationWitness ==
    /\ spc = "done"
    /\ Len(result) >= 3

\* a position of the polygon that is at distance >= min_distance from every accepted point
Uncovered(p) ==
    /\ PolyContains(polygon, p)
    /\ \A i \in 1..Len(points) : DistSq(p, points[i]) >= min_distance * min_distance

\* C4 as claimed: when generate_distribution returns, no further point can be added.
Maximality ==
    spc = "done" => ~ \E p \in BoxLattice : Uncovered(p)

\* C4 as amended: the function returns only with an empty frontier and the full
\* accepted list, and an index leaves the frontier only after MaxAttempts failed
\* candidates around it; positions nobody drew may remain free.
MaximalUpToDraws ==
    /\ [](spc = "done" /\ points # <<>> => active_indices = <<>> /\ result = points)
    /\ [][Len(active_indices') < Len(active_indices) =>
            attempts = MaxAttempts /\ points' = points]_vars

MaximalUpToDrawsWitness ==
    /\ spc = "done"
    /\ result # <<>>
    /\ \E p \in BoxLattice : Uncovered(p)

\* C5: at most SeedAttempts seed attempts are made and the first contained one ends
\* the seed phase, so at most one seed is registered; the seed phase ends without a
\* seed only after SeedAttempts misses, the growth loop is then never entered and the
\* result is empty; the result is empty only in that case.
SeedPhase ==
    /\ [](spc = "seed" => seed_tries <= SeedAttempts /\ points = <<>>)
    /\ [](spc = "check" => Len(points) <= 1)
    /\ [](spc \in {"pick", "try"} => points # <<>>)
    /\ [](spc = "done" => (result = <<>> <=> points = <<>>))
    /\ [][spc = "seed" /\ spc' = "check" /\ points' = <<>> => seed_tries = SeedAttempts]_vars
    /\ [][spc = "seed" /\ points' # <<>> => spc' = "check"]_vars

SeedPhaseWitness ==
    /\ spc = "done"
    /\ result = <<>>
    /\ \E p \in BoxLattice : PolyContains(polygon, p)

ReturnedList ==
    /\ [](spc = "done" => active_indices = <<>>)
    /\ [](spc = "done" /\ points # <<>> => result = points)
    /\ [](\A i, j \in 1..Len(points) : i # j => points[i] # points[j])
    /\ [][/\ Len(points') \in {Len(points), Len(points) + 1}
           /\ SubSeq(points', 1, Len(points)) = points]_vars
    /\ [][spc = "done" => result' = result]_vars

ReturnedListWitness ==
    /\ spc = "done"
    /\ active_indices = <<>>
    /\ Len(result) >= 2
    /\ result = points

\* C20: is_point_valid agrees with a scan of every accepted point: in every state
\* of generate_distribution and for every candidate inside the bounding box it is
\* true iff the candidate is at distance >= min_distance from every accepted point.
WindowScanEquivalence ==
    spc \in {"check", "pick", "try", "done"} =>
        \A p \in BoxLattice :
            InBounds(p) =>
                (is_point_valid(p) <=>
                    \A i \in 1..Len(points) :
                        DistSq(p, points[i]) >= min_distance * min_distance)

\* the grid cell of a position: (column, row)
CellOfPoint(p) ==
    <<CellOf(p.x - bounds.min_x, min_distance), CellOf(p.y - bounds.min_y, min_distance)>>

\* the indices held by the frontier
Frontier(s) == {s[k] : k \in 1..Len(s)}

\* the pivot of the iteration in progress (an index into points, 0-based)
Pivot == active_indices[idx + 1]

\* the candidates that can be drawn around the pivot
PivotCandidates ==
    {Pt(points[Pivot + 1].x + o[1], points[Pivot + 1].y + o[2]) : o \in Annulus(min_distance)}

\* C21: at most one accepted point per grid cell: no two accepted points map to
\* the same cell, and no step replaces the index a cell already holds.
OnePointPerCell ==
    /\ [](\A i, j \in 1..Len(points) :
            i # j => CellOfPoint(points[i]) # CellOfPoint(points[j]))
    /\ [][\A c \in DOMAIN grid : grid[c] # NoneIdx => grid'[c] = grid[c]]_vars

OnePointPerCellWitness ==
    /\ Len(points) >= 3
    /\ Cardinality({c \in DOMAIN grid : grid[c] # NoneIdx}) = Len(points)

\* C22: the grid and the accepted list stay consistent: the cell of every accepted
\* point lies inside the grid and holds that point's index, and every index the
\* grid holds designates an accepted point.
GridConsistent ==
    /\ \A i \in 1..Len(points) :
        LET c == CellOfPoint(points[i])
        IN  /\ c[1] < grid_width
            /\ c[2] < grid_height
            /\ grid[c[2] * grid_width + c[1]] = i - 1
    /\ \A c \in DOMAIN grid : grid[c] # NoneIdx => grid[c] \in 0..(Len(points) - 1)

GridConsistentWitness ==
    /\ Len(points) >= 2
    /\ \E i \in 1..Len(points) : CellOfPoint(points[i])[1] >= 2
    /\ \A i \in 1..Len(points) :
        grid[CellOfPoint(points[i])[2] * grid_width + CellOfPoint(points[i])[1]] = i - 1

\* C23: the number of accepted points never exceeds the number of grid cells.
CapacityBound ==
    Len(points) <= grid_width * grid_height

CapacityBoundWitness ==
    /\ spc = "done"
    /\ Len(points) >= 3
    /\ Len(points) <= grid_width * grid_height

\* C24: the accepted list only grows at its end, and retiring a pivot removes that
\* pivot's index from the frontier and nothing else: the accepted list, the grid and
\* the membership of every other frontier entry stay as they were.
AppendOnly ==
    /\ [][/\ Len(points') >= Len(points)
           /\ SubSeq(points', 1, Len(points)) = points]_vars
    /\ [][spc = "try" /\ attempts = MaxAttempts =>
            /\ points' = points
            /\ grid' = grid
            /\ Len(active_indices') = Len(active_indices) - 1
            /\ Frontier(active_indices') = Frontier(active_indices) \ {Pivot}]_vars

AppendOnlyWitness ==
    /\ spc = "pick"
    /\ Len(points) >= 3
    /\ Len(active_indices) = 2
    /\ 0 \notin Frontier(active_indices)

\* C25: an iteration of the growth loop makes at most MaxAttempts attempts; each
\* failed candidate, one outside the bounding box included, is one attempt and
\* changes nothing else; an accepted candidate ends the iteration at once, registers
\* exactly one point, which joins the frontier while the pivot stays; the pivot
\* leaves the frontier exactly when MaxAttempts candidates have failed.
GrowthStep ==
    /\ [](spc = "try" => attempts <= MaxAttempts)
    /\ [][spc = "try" =>
            \/ /\ attempts < MaxAttempts
               /\ attempts' = attempts + 1
               /\ spc' = "try"
               /\ points' = points
               /\ active_indices' = active_indices
               /\ idx' = idx
            \/ /\ attempts < MaxAttempts
               /\ Len(points') = Len(points) + 1
               /\ SubSeq(points', 1, Len(points)) = points
               /\ active_indices' = Append(active_indices, Len(points))
               /\ spc' = "pick"
            \/ /\ attempts = MaxAttempts
               /\ points' = points
               /\ Len(active_indices') = Len(active_indices) - 1
               /\ Frontier(active_indices') = Frontier(active_indices) \ {Pivot}
               /\ spc' = "pick"]_vars

\* every candidate around the pivot is outside the bounding box, and all
\* MaxAttempts attempts have been spent on them
GrowthStepWitness ==
    /\ spc = "try"
    /\ attempts = MaxAttempts
    /\ \A p \in PivotCandidates : ~InBounds(p)

\* C26: the frontier holds no index twice and only indices of accepted points; an
\* index enters the frontier only in the step that registers its point, and every
\* registered point enters it in that step (so it enters once and leaves at most once).
FrontierWellFormed ==
    /\ [](\A k, l \in 1..Len(active_indices) : k # l => active_indices[k] # active_indices[l])
    /\ [](\A k \in 1..Len(active_indices) : active_indices[k] \in 0..(Len(points) - 1))
    /\ [][\A i \in Frontier(active_indices') \ Frontier(active_indices) :
            i = Len(points) /\ Len(points') = Len(points) + 1]_vars
    /\ [][Len(points') = Len(points) + 1 => Len(points) \in Frontier(active_indices')]_vars

FrontierWellFormedWitness ==
    /\ Len(active_indices) >= 2
    /\ Len(points) > Len(active_indices)
    /\ \A k, l \in 1..Len(active_indices) : k # l => active_indices[k] # active_indices[l]

\* C27: every accepted point other than the seed lies at a distance d with
\* min_distance <= d < 2 * min_distance from some point accepted before it.
AnnulusPlacement ==
    \A i \in 2..Len(points) :
        \E j \in 1..(i - 1) :
            /\ DistSq(points[i], points[j]) >= min_distance * min_distance
            /\ DistSq(points[i], points[j]) < 4 * min_distance * min_distance

AnnulusPlacementWitness ==
    /\ Len(points) >= 3
    /\ DistSq(points[3], points[2]) >= min_distance * min_distance
    /\ DistSq(points[3], points[2]) < 4 * min_distance * min_distance
    /\ DistSq(points[3], points[1]) >= 4 * min_distance * min_distance

HasMarker(s) == StrContains(s, PolygonOpen) \/ StrContains(s, MultiPolygonOpen)

\* C6: every input that contains MULTIPOLYGON is rejected with the MULTIPOLYGON
\* error, never with the malformed-geometry error and never with a polygon.
MultiPolygonRejected ==
    (StrContains(line, MultiPolygonWord) /\ ppc # "start")
        => (ppc = "err" /\ perr = "MULTIPOLYGON")

\* C7: an input with neither POLYGON(( nor MULTIPOLYGON(( is rejected with the
\* malformed-geometry error before any parsing strategy runs; no polygon is bound.
MalformedRejected ==
    (~HasMarker(line) /\ ppc # "start")
        => /\ ppc = "err"
           /\ perr = "Probleme(3)"
           /\ modified_str = <<>>
           /\ maybe_polygon = <<>>
           /\ ~via_fallback
           /\ parsed = <<>>

MalformedRejectedWitness ==
    /\ ~HasMarker(line)
    /\ StrContains(line, <<"POLYGON">>)
    /\ StrContains(line, <<"0", " ", "0">>)
    /\ ppc = "err"
    /\ perr = "Probleme(3)"

\* the fast path has run
FastDone ==
    \/ ppc = "match"
    \/ ppc = "sample"
    \/ (ppc = "err" /\ perr \notin {"Probleme(3)", "MULTIPOLYGON"})

\* C8: the result is the fast-path polygon whenever the fast path yields one; the
\* fast path yields nothing as soon as one pair is not two numbers and otherwise a
\* polygon holding every pair in order; parse_polygon_wkt runs exactly when the fast
\* path yielded nothing, and its polygon or error is then the result.
TwoTierParsing ==
    /\ FastDone =>
         LET pairs == FastPairs(modified_str)
         IN  /\ (pairs = <<>> \/ \E k \in 1..Len(pairs) : FastPair(pairs[k]) = <<>>)
                    => maybe_polygon = <<>>
             /\ maybe_polygon # <<>> =>
                    /\ Len(maybe_polygon[1].exterior) >= Len(pairs)
                    /\ \A k \in 1..Len(pairs) :
                          maybe_polygon[1].exterior[k] = FastPair(pairs[k])[1]
    /\ (ppc = "sample" /\ ~via_fallback) => (maybe_polygon # <<>> /\ parsed = maybe_polygon)
    /\ via_fallback => (maybe_polygon = <<>> /\ ppc \in {"sample", "err"})
    /\ (ppc \in {"sample", "err"} /\ FastDone /\ maybe_polygon = <<>>) => via_fallback
    /\ (ppc = "sample" /\ via_fallback) =>
            (parse_polygon_wkt(line).ok /\ parsed = <<parse_polygon_wkt(line).polygon>>)
    /\ (ppc = "err" /\ via_fallback) =>
            (~parse_polygon_wkt(line).ok /\ perr = parse_polygon_wkt(line).err)

TwoTierParsingWitness ==
    /\ ppc = "sample"
    /\ via_fallback
    /\ \E k \in 1..Len(FastPairs(modified_str)) : FastPair(FastPairs(modified_str)[k]) = <<>>
    /\ Len(parsed[1].exterior) >= 3

\* a token is exactly two whitespace-separated floats
TwoFloats(t) ==
    /\ Len(SplitWhitespace(t)) = 2
    /\ ParseF64(SplitWhitespace(t)[1]) # <<>>
    /\ ParseF64(SplitWhitespace(t)[2]) # <<>>

TokenCoord(t) == Coord(ParseF64(SplitWhitespace(t)[1])[1], ParseF64(SplitWhitespace(t)[2])[1])

\* the tokens of the line that are two floats, in input order
GoodTokens == SelectSeq(WktTokens(line), TwoFloats)

ParsedCoords ==
    IF via_fallback THEN WktCoords(WktTokens(line), <<>>)
    ELSE FastCoords(FastPairs(modified_str), <<>>)[1]

\* C10: every polygon returned by either strategy has an exterior ring whose first
\* and last coordinates are equal and has no holes; a parsed ring that is already
\* closed is returned unchanged, and a parsed ring of n >= 2 coordinates with
\* first /= last gains exactly one coordinate, a copy of the first, at the end.
RingClosure ==
    ppc = "sample" =>
        LET ring == parsed[1].exterior
            c == ParsedCoords
        IN  /\ ring # <<>>
            /\ CoordEq(ring[1], ring[Len(ring)])
            /\ parsed[1].interiors = <<>>
            /\ CoordEq(c[1], c[Len(c)]) => ring = c
            /\ (Len(c) >= 2 /\ ~CoordEq(c[1], c[Len(c)])) => ring = Append(c, c[1])

\* the box b encloses the ring and each of its sides is attained
Encloses(b, ring) ==
    /\ \A k \in 1..Len(ring) :
          /\ FloatLe(b.min_x, ring[k].x) /\ FloatLe(ring[k].x, b.max_x)
          /\ FloatLe(b.min_y, ring[k].y) /\ FloatLe(ring[k].y, b.max_y)
    /\ \E k \in 1..Len(ring) : FloatEq(ring[k].x, b.min_x)
    /\ \E k \in 1..Len(ring) : FloatEq(ring[k].x, b.max_x)
    /\ \E k \in 1..Len(ring) : FloatEq(ring[k].y, b.min_y)
    /\ \E k \in 1..Len(ring) : FloatEq(ring[k].y, b.max_y)

\* C15 as claimed: for every polygon with a non-empty exterior ring,
\* calculate_polygon_bounds returns (min_x, min_y, max_x, max_y) with every ring
\* coordinate inside and each of the four values attained by a ring coordinate.
BoundsEnclose ==
    pbounds # <<>> => Encloses(pbounds[1], parsed[1].exterior)

NoNaN(ring) == \A k \in 1..Len(ring) : ~ring[k].x.nan /\ ~ring[k].y.nan

\* C15 as amended: the same for every polygon whose non-empty exterior ring holds
\* no NaN coordinate.
BoundsEncloseNumbers ==
    (pbounds # <<>> /\ NoNaN(parsed[1].exterior))
        => Encloses(pbounds[1], parsed[1].exterior)

BoundsEncloseNumbersWitness ==
    /\ pbounds # <<>>
    /\ NoNaN(parsed[1].exterior)
    /\ Len(parsed[1].exterior) >= 3
    /\ pbounds[1].min_x.v < pbounds[1].max_x.v
    /\ pbounds[1].min_y.v < pbounds[1].max_y.v
    /\ Encloses(pbounds[1], parsed[1].exterior)

(***************************************************************************)
(* Properties of the batch driver                                          *)
(***************************************************************************)
NonBlank(l) == Trim(l) # <<>>

HasPolygonText(l) == StrContains(l, <<"POLYGON">>) \/ StrContains(l, MultiPolygonWord)

\* the error distribute_points_in_polygon returns for the line, "none" if it returns points
LineError(l) ==
    IF ~HasMarker(l) THEN "Probleme(3)"
    ELSE IF StrContains(l, MultiPolygonWord) THEN "MULTIPOLYGON"
    ELSE IF extract_polygon_from_string(transform_polygon_string(l)) # <<>> THEN "none"
    ELSE IF parse_polygon_wkt(l).ok THEN "none"
    ELSE parse_polygon_wkt(l).err

\* the number of non-blank lines among the lines 1..(upto - 1) after the header
RECURSIVE RowsBefore(_, _)
RowsBefore(ls, upto) ==
    IF upto <= 1 THEN 0
    ELSE RowsBefore(ls, upto - 1) + (IF NonBlank(ls[upto]) THEN 1 ELSE 0)

\* the entries the lines i..(upto - 1) after the header are due in errors, in file
\* order, when row non-blank lines precede line i
RECURSIVE ErrorsDue(_, _, _, _)
ErrorsDue(ls, i, row, upto) ==
    IF i >= upto THEN <<>>
    ELSE IF ~NonBlank(ls[i + 1]) THEN ErrorsDue(ls, i + 1, row, upto)
    ELSE IF ~HasPolygonText(ls[i + 1])
    THEN <<[text |-> "No polygon data in line", n |-> i, msg |-> "none"]>>
            \o ErrorsDue(ls, i + 1, row + 1, upto)
    ELSE IF LineError(ls[i + 1]) # "none"
    THEN <<[text |-> "Error at row", n |-> row, msg |-> LineError(ls[i + 1])]>>
            \o ErrorsDue(ls, i + 1, row + 1, upto)
    ELSE ErrorsDue(ls, i + 1, row + 1, upto)

FileLines == StrSplit(content, NewLine)

\* C12: process_vegetation_data handles every non-blank data line in file order: a
\* rejected line (malformed, MULTIPOLYGON, empty, without POLYGON text) appends
\* exactly one entry to errors and the loop goes on; an accepted line appends none;
\* the loop ends after the last line with processed_rows = N, the number of
\* non-blank data lines.
PerItemErrors ==
    /\ bpc = "loop" =>
          /\ lines = FileLines
          /\ line_idx <= Len(lines)
          /\ row_index = RowsBefore(lines, line_idx)
          /\ processed_rows = row_index
          /\ errors = ErrorsDue(lines, 1, 0, line_idx)
    /\ bpc = "advance" =>
          /\ row_index = RowsBefore(lines, line_idx)
          /\ errors = ErrorsDue(lines, 1, 0, line_idx + 1)
    /\ bpc = "returned" =>
          /\ line_idx = Len(lines)
          /\ processed_rows = Len(SelectSeq(Tail(FileLines), NonBlank))
          /\ errors = ErrorsDue(FileLines, 1, 0, Len(FileLines))

PerItemErrorsWitness ==
    /\ bpc = "returned"
    /\ processed_rows = 2
    /\ Len(errors) = 1
    /\ errors[1].n = 0
    /\ created_items >= 1

\* C13: a line whose polygon parses and for which the sampler returns no point is a
\* success: no entry is appended to errors, created_items and the output file stay
\* as they were, and processed_rows increases by one.
EmptyResultIsSuccess ==
    /\ (bpc \in {"write", "account"} /\ out_points = <<>>) =>
          /\ errors = ErrorsDue(lines, 1, 0, line_idx)
          /\ created_items = written
          /\ processed_rows = row_index
    /\ bpc \in {"loop", "advance", "returned"} => created_items = written
    /\ bpc = "advance" => processed_rows = row_index
    /\ bpc = "loop" => processed_rows = RowsBefore(lines, line_idx)

EmptyResultIsSuccessWitness ==
    /\ bpc = "returned"
    /\ processed_rows = 1
    /\ LineError(FileLines[2]) = "none"
    /\ errors = <<>>
    /\ created_items = 0
    /\ written = 0

\* C14: the jitter stage emits one point per accepted point, in the same order, none
\* dropped or tested again; with variation <= 0 the emitted point is the accepted
\* point, with variation > 0 it lies at distance < variation from it.
JitterStage ==
    /\ (bpc = "call" /\ ppc = "sampling" /\ spc = "done") =>
          /\ Len(out_points) <= Len(result)
          /\ \A k \in 1..Len(out_points) :
                IF params.variation > 0
                THEN DistSq(out_points[k], result[k]) < params.variation * params.variation
                ELSE out_points[k] = result[k]
    /\ bpc = "write" =>
          /\ Len(out_points) = Len(result)
          /\ \A k \in 1..Len(out_points) :
                IF params.variation > 0
                THEN DistSq(out_points[k], result[k]) < params.variation * params.variation
                ELSE out_points[k] = result[k]

JitterStageWitness ==
    /\ bpc = "write"
    /\ params.variation > 0
    /\ Len(out_points) = 2
    /\ out_points[1] # result[1]
    /\ ~PolyContains(polygon, out_points[2])

\* C16: every data line is sampled with a sampler of its own: when
\* generate_distribution starts, the accepted list and the frontier are empty and no
\* grid cell is occupied; the sampler works on the polygon and the bounds of the
\* line at hand, and every point it accepts lies in that polygon.
FreshSampler ==
    ppc = "sampling" =>
        /\ polygon = LatticeRing(parsed[1])
        /\ min_distance = params.density
        /\ spc = "seed" =>
              /\ points = <<>>
              /\ active_indices = <<>>
              /\ \A c \in DOMAIN grid : grid[c] = NoneIdx
        /\ \A k \in 1..Len(points) : PolyContains(polygon, points[k])
        /\ spc = "done" => \A k \in 1..Len(result) : PolyContains(polygon, result[k])

FreshSamplerWitness ==
    /\ ppc = "sampling"
    /\ spc = "done"
    /\ row_index = 1
    /\ created_items = 2
    /\ bounds.min_x = 10
    /\ Len(result) = 1

\* C18: count_file_rows returns the number of non-empty lines of the file, the
\* header line not counted, whatever the content.
RowCount ==
    bpc \in {"open", "loop", "call", "write", "account", "advance", "returned"} =>
        total_rows = Cardinality({k \in 2..Len(FileLines) : FileLines[k] # <<>>})

(***************************************************************************)
(* Properties of the settings command                                      *)
(***************************************************************************)
\* C19: the set_user_vegetation_params command returns Ok(()) on success or an
\* error: whenever the settings store rejects or fails to store the parameters, the
\* command returns an error to its caller.
CommandReportsRejection ==
    /\ store_ret = "Ok" => cmd_ret = "Ok"
    /\ store_ret \in {"InvalidVegetationType", "InvalidPath", "Database"} => cmd_ret = "Err"

(***************************************************************************)
(* The batch and get_vegetation_progress as two threads                    *)
(*                                                                         *)
(* generate_vegetation_from_csv is an async command, get_vegetation_progress*)
(* a synchronous one; they share VegetationProcessingState.  The batch is   *)
(* followed here from one mutex operation to the next; what                *)
(* distribute_points_in_polygon does with a line is taken as its result.   *)
(* A statement that locks a mutex and drops the guard at its end is one    *)
(* step, enabled when the mutex is free.                                   *)
(***************************************************************************)
\* the data lines of the files processed next to a reader
ProgressLineKinds == {LineRect, LineBad, LineText, LineEmpty}

ProgressFiles ==
    {Header}
    \cup {Header \o NewLine \o JoinLines(ls) :
            ls \in UNION {[1..n -> ProgressLineKinds] : n \in 1..MaxLines}}

\* the numbers of points generate_distribution can return for the polygon of a data
\* line at density 2
SampledCounts(l) ==
    IF l = LineRect THEN 0..2
    ELSE IF l = LineTri THEN 0..1
    ELSE {0}

\* what distribute_points_in_polygon can return for a line (processing.rs:180-240)
DistributeOutcomes(l) ==
    IF LineError(l) # "none"
    THEN {[ok |-> FALSE, n |-> 0]}
    ELSE {[ok |-> TRUE, n |-> k] : k \in SampledCounts(l)}

\* generate_vegetation_from_csv is entered; nobody reads the progress yet
ProgressInit ==
    /\ \E st \in PriorStates :
        /\ processed_rows = st.processed_rows
        /\ total_rows = st.total_rows
        /\ created_items = st.created_items
        /\ errors = st.errors
    /\ content \in ProgressFiles
    /\ params = [density |-> 2, variation |-> 0]
    /\ bpc = "reset_rows"
    /\ lines = <<>>
    /\ line_idx = 0
    /\ row_index = 0
    /\ out_points = <<>>
    /\ written = 0
    /\ ProgressIdle

\* the entry of generate_vegetation_from_csv without the reset of processed_rows
ResetProcessedRows_Skip ==
    /\ UNCHANGED <<svars, pvars, tvars>>
    /\ bpc = "reset_rows"
    /\ mutex["processed_rows"] = "free"
    /\ processed_rows' = processed_rows
    /\ bpc' = "reset_items"
    /\ UNCHANGED <<total_rows, created_items, errors, content, params, lines, line_idx,
                   row_index, out_points, written, cvars>>

\* *state.processed_rows.lock().unwrap() = 0 (processing.rs:37)
ResetProcessedRows ==
    /\ UNCHANGED <<svars, pvars, tvars>>
    /\ bpc = "reset_rows"
    /\ mutex["processed_rows"] = "free"
    /\ processed_rows' = 0
    /\ bpc' = "reset_items"
    /\ UNCHANGED <<total_rows, created_items, errors, content, params, lines, line_idx,
                   row_index, out_points, written, cvars>>

\* *state.created_items.lock().unwrap() = 0 (processing.rs:38)
ResetCreatedItems ==
    /\ UNCHANGED <<svars, pvars, tvars>>
    /\ bpc = "reset_items"
    /\ mutex["created_items"] = "free"
    /\ created_items' = 0
    /\ bpc' = "reset_errors"
    /\ UNCHANGED <<processed_rows, total_rows, errors, content, params, lines, line_idx,
                   row_index, out_points, written, cvars>>

\* state.errors.lock().unwrap().clear() (processing.rs:39)
ClearErrors ==
    /\ UNCHANGED <<svars, pvars, tvars>>
    /\ bpc = "reset_errors"
    /\ mutex["errors"] = "free"
    /\ errors' = <<>>
    /\ bpc' = "count_rows"
    /\ UNCHANGED <<processed_rows, total_rows, created_items, content, params, lines, line_idx,
                   row_index, out_points, written, cvars>>

\* *state.total_rows.lock().unwrap() = total_rows (processing.rs:42-46)
SetTotalRows ==
    /\ UNCHANGED <<svars, pvars, tvars>>
    /\ bpc = "count_rows"
    /\ mutex["total_rows"] = "free"
    /\ total_rows' = count_file_rows(content)
    /\ bpc' = "read_input"
    /\ UNCHANGED <<processed_rows, created_items, errors, content, params, lines, line_idx,
                   row_index, out_points, written, cvars>>

\* process_vegetation_data reads the input and creates the output (processing.rs:94-108)
ReadInput ==
    /\ UNCHANGED <<svars, pvars, tvars>>
    /\ bpc = "read_input"
    /\ lines' = StrSplit(content, NewLine)
    /\ row_index' = 0
    /\ line_idx' = 1
    /\ bpc' = "line"
    /\ UNCHANGED <<processed_rows, total_rows, created_items, errors, content, params,
                   out_points, written, cvars>>

\* a blank line is passed over (processing.rs:110-113)
SkipBlankLine ==
    /\ UNCHANGED <<svars, pvars, tvars>>
    /\ bpc = "line"
    /\ line_idx < Len(lines)
    /\ ~NonBlank(lines[line_idx + 1])
    /\ line_idx' = line_idx + 1
    /\ UNCHANGED <<processed_rows, total_rows, created_items, errors, content, params, bpc,
                   lines, row_index, out_points, written, cvars>>

\* a line without polygon text: state.errors.lock().unwrap().push(..) (processing.rs:154-160)
PushNoPolygon ==
    /\ UNCHANGED <<svars, pvars, tvars>>
    /\ bpc = "line"
    /\ line_idx < Len(lines)
    /\ NonBlank(lines[line_idx + 1])
    /\ ~HasPolygonText(lines[line_idx + 1])
    /\ mutex["errors"] = "free"
    /\ errors' = Append(errors, [text |-> "No polygon data in line", n |-> line_idx, msg |-> "none"])
    /\ row_items' = Append(row_items, 0)
    /\ bpc' = "store_rows"
    /\ UNCHANGED <<processed_rows, total_rows, created_items, content, params, lines, line_idx,
                   row_index, out_points, written, mutex, rpc, snapshot, points_len>>
    /\ UNCHANGED ovars

\* distribute_points_in_polygon returns; its points are written (processing.rs:116-123, 145)
DistributeReturns ==
    /\ UNCHANGED <<svars, pvars, tvars>>
    /\ bpc = "line"
    /\ line_idx < Len(lines)
    /\ NonBlank(lines[line_idx + 1])
    /\ HasPolygonText(lines[line_idx + 1])
    /\ \E r \in DistributeOutcomes(lines[line_idx + 1]) :
        IF r.ok
        THEN /\ points_len' = r.n
             /\ written' = written + r.n
             /\ bpc' = "lock_created"
        ELSE /\ bpc' = "push_error"
             /\ UNCHANGED <<points_len, written>>
    /\ UNCHANGED <<processed_rows, total_rows, created_items, errors, content, params, lines,
                   line_idx, row_index, out_points, mutex, rpc, snapshot, row_items>>
    /\ UNCHANGED ovars

\* let mut created_items = state.created_items.lock().unwrap();
\* *created_items += points.len(); the guard lives to the end of the arm
\* (processing.rs:126-127)
LockCreatedItems ==
    /\ UNCHANGED <<svars, pvars, tvars>>
    /\ bpc = "lock_created"
    /\ mutex["created_items"] = "free"
    /\ mutex' = [mutex EXCEPT !["created_items"] = "batch"]
    /\ created_items' = created_items + points_len
    /\ row_items' = Append(row_items, points_len)
    /\ bpc' = "log_row"
    /\ UNCHANGED <<processed_rows, total_rows, errors, content, params, lines, line_idx,
                   row_index, out_points, written, rpc, snapshot, points_len>>
    /\ UNCHANGED ovars

\* println!(.., *state.total_rows.lock().unwrap(), ..) while created_items is still
\* locked, then the end of the arm drops the created_items guard (processing.rs:137-144)
LogRow ==
    /\ UNCHANGED <<svars, pvars, tvars>>
    /\ bpc = "log_row"
    /\ mutex["total_rows"] = "free"
    /\ mutex' = [mutex EXCEPT !["created_items"] = "free"]
    /\ points_len' = 0
    /\ bpc' = "store_rows"
    /\ UNCHANGED <<processed_rows, total_rows, created_items, errors, content, params, lines,
                   line_idx, row_index, out_points, written, rpc, snapshot, row_items>>
    /\ UNCHANGED ovars

\* the Err arm: state.errors.lock().unwrap().push(..) (processing.rs:145-152)
PushRowError ==
    /\ UNCHANGED <<svars, pvars, tvars>>
    /\ bpc = "push_error"
    /\ mutex["errors"] = "free"
    /\ errors' = Append(errors, [text |-> "Error at row", n |-> row_index,
                                 msg |-> LineError(lines[line_idx + 1])])
    /\ row_items' = Append(row_items, 0)
    /\ bpc' = "store_rows"
    /\ UNCHANGED <<processed_rows, total_rows, created_items, content, params, lines, line_idx,
                   row_index, out_points, written, mutex, rpc, snapshot, points_len>>
    /\ UNCHANGED ovars

\* row_index += 1; *state.processed_rows.lock().unwrap() = row_index (processing.rs:162-165)
StoreProcessedRows ==
    /\ UNCHANGED <<svars, pvars, tvars>>
    /\ bpc = "store_rows"
    /\ mutex["processed_rows"] = "free"
    /\ row_index' = row_index + 1
    /\ processed_rows' = row_index + 1
    /\ line_idx' = line_idx + 1
    /\ bpc' = "line"
    /\ UNCHANGED <<total_rows, created_items, errors, content, params, lines, out_points,
                   written, cvars>>

\* the lines are exhausted: Ok(()) (processing.rs:110, 167)
ProcessingReturns ==
    /\ UNCHANGED <<svars, pvars, tvars>>
    /\ bpc = "line"
    /\ line_idx >= Len(lines)
    /\ bpc' = "returned"
    /\ UNCHANGED <<processed_rows, total_rows, created_items, errors, content, params, lines,
                   line_idx, row_index, out_points, written, cvars>>

\* the previous call has returned and generate_vegetation_from_csv is called again
\* on the same VegetationProcessingState (processing.rs:31-35)
NextInvocation ==
    /\ UNCHANGED <<svars, pvars, tvars>>
    /\ bpc = "returned"
    /\ content' \in ProgressFiles
    /\ bpc' = "reset_rows"
    /\ lines' = <<>>
    /\ line_idx' = 0
    /\ row_index' = 0
    /\ written' = 0
    /\ points_len' = 0
    /\ row_items' = <<>>
    /\ UNCHANGED <<processed_rows, total_rows, created_items, errors, params, out_points,
                   mutex, rpc, snapshot>>
    /\ UNCHANGED ovars

\* ReadProcessedRows dropping its guard as soon as the value is read
ReadProcessedRows_Unlocked ==
    /\ UNCHANGED <<svars, pvars, tvars, bvars>>
    /\ rpc = "idle"
    /\ mutex["processed_rows"] = "free"
    /\ snapshot' = [NoSnapshot EXCEPT !.current_row = processed_rows]
    /\ rpc' = "total_rows"
    /\ UNCHANGED <<mutex, points_len, row_items>>
    /\ UNCHANGED ovars

\* get_vegetation_progress is called; current_row: *state.processed_rows.lock().unwrap()
\* (processing.rs:70-71).  The guards taken inside the struct expression are
\* temporaries of the tail expression: each is held until the value is built.
ReadProcessedRows ==
    /\ UNCHANGED <<svars, pvars, tvars, bvars>>
    /\ rpc = "idle"
    /\ mutex["processed_rows"] = "free"
    /\ mutex' = [mutex EXCEPT !["processed_rows"] = "reader"]
    /\ snapshot' = [NoSnapshot EXCEPT !.current_row = processed_rows]
    /\ rpc' = "total_rows"
    /\ UNCHANGED <<points_len, row_items>>
    /\ UNCHANGED ovars

\* total_rows: *state.total_rows.lock().unwrap() (processing.rs:72)
ReadTotalRows ==
    /\ UNCHANGED <<svars, pvars, tvars, bvars>>
    /\ rpc = "total_rows"
    /\ mutex["total_rows"] = "free"
    /\ mutex' = [mutex EXCEPT !["total_rows"] = "reader"]
    /\ snapshot' = [snapshot EXCEPT !.total_rows = total_rows]
    /\ rpc' = "created_items"
    /\ UNCHANGED <<points_len, row_items>>
    /\ UNCHANGED ovars

\* created_items: *state.created_items.lock().unwrap() (processing.rs:73)
ReadCreatedItems ==
    /\ UNCHANGED <<svars, pvars, tvars, bvars>>
    /\ rpc = "created_items"
    /\ mutex["created_items"] = "free"
    /\ mutex' = [mutex EXCEPT !["created_items"] = "reader"]
    /\ snapshot' = [snapshot EXCEPT !.created_items = created_items]
    /\ rpc' = "errors"
    /\ UNCHANGED <<points_len, row_items>>
    /\ UNCHANGED ovars

\* errors: state.errors.lock().unwrap().clone(); the value is returned and every
\* guard is dropped (processing.rs:74-76)
ReadErrors ==
    /\ UNCHANGED <<svars, pvars, tvars, bvars>>
    /\ rpc = "errors"
    /\ mutex["errors"] = "free"
    /\ mutex' = [m \in Mutexes |-> IF mutex[m] = "reader" THEN "free" ELSE mutex[m]]
    /\ snapshot' = [snapshot EXCEPT !.errors = errors]
    /\ rpc' = "idle"
    /\ UNCHANGED <<points_len, row_items>>
    /\ UNCHANGED ovars

ProgressNext ==
    \/ ResetProcessedRows
    \/ ResetCreatedItems
    \/ ClearErrors
    \/ SetTotalRows
    \/ ReadInput
    \/ SkipBlankLine
    \/ PushNoPolygon
    \/ DistributeReturns
    \/ LockCreatedItems
    \/ LogRow
    \/ PushRowError
    \/ StoreProcessedRows
    \/ ProcessingReturns
    \/ NextInvocation
    \/ ReadProcessedRows
    \/ ReadTotalRows
    \/ ReadCreatedItems
    \/ ReadErrors

ProgressSpecInit == ProgressInit /\ ParseIdle /\ SamplerIdle /\ SettingsIdle

ProgressSpec == ProgressSpecInit /\ [][ProgressNext]_vars

(***************************************************************************)
(* The preview command extract_polygon_data                                *)
(***************************************************************************)
\* extract_polygon_data is called on a file whose first data line is line
PreviewInit ==
    /\ line \in Lines
    /\ ppc = "preview"
    /\ modified_str = <<>>
    /\ maybe_polygon = <<>>
    /\ parsed = <<>>
    /\ via_fallback = FALSE
    /\ perr = "none"
    /\ pbounds = <<>>

\* the line is selected when it holds POLYGON text (processing.rs:271-282) and
\* parsed by the fast path, then by parse_polygon_wkt (processing.rs:285-293)
ExtractPolygonData ==
    /\ UNCHANGED <<svars, bvars, tvars, cvars>>
    /\ ppc = "preview"
    /\ IF ~HasPolygonText(line)
       THEN /\ perr' = "Aucun polygone"
            /\ ppc' = "preview_err"
            /\ UNCHANGED <<modified_str, maybe_polygon, parsed, via_fallback>>
       ELSE /\ modified_str' = transform_polygon_string(line)
            /\ maybe_polygon' = extract_polygon_from_string(transform_polygon_string(line))
            /\ IF extract_polygon_from_string(transform_polygon_string(line)) # <<>>
               THEN /\ parsed' = extract_polygon_from_string(transform_polygon_string(line))
                    /\ ppc' = "previewed"
                    /\ UNCHANGED <<via_fallback, perr>>
               ELSE /\ via_fallback' = TRUE
                    /\ IF parse_polygon_wkt(line).ok
                       THEN /\ parsed' = <<parse_polygon_wkt(line).polygon>>
                            /\ ppc' = "previewed"
                            /\ UNCHANGED perr
                       ELSE /\ perr' = parse_polygon_wkt(line).err
                            /\ ppc' = "preview_err"
                            /\ UNCHANGED parsed
    /\ UNCHANGED <<line, pbounds>>

PreviewNext == ExtractPolygonData

PreviewSpecInit == PreviewInit /\ SamplerIdle /\ BatchIdle /\ SettingsIdle /\ ProgressIdle

PreviewSpec == PreviewSpecInit /\ [][PreviewNext]_vars

(***************************************************************************)
(* VegetationProcessingState of models/processing.rs and its reports       *)
(***************************************************************************)
\* percentage of get_progress_info (models/processing.rs:104-108), rounded down
percentage(current_row, total) ==
    IF total > 0 THEN (current_row * 100) \div total ELSE 0

\* the row-count test of is_finished (models/processing.rs:131)
RowsDone(current_row, total) == total > 0 /\ current_row >= total

\* the largest count handed to initialize, update_processed_rows and
\* update_created_items, and the largest number of errors added
MaxRows == 2

\* get_progress_info with is_finished taken from the row counts alone
get_progress_info_RowTest(current_row, total, items, errs, start, end) ==
    [current_row |-> current_row,
     total_rows |-> total,
     created_items |-> items,
     errors |-> errs,
     percentage |-> percentage(current_row, total),
     elapsed_seconds |-> IF start = "Some" THEN "Some" ELSE "None",
     estimated_remaining_seconds |->
        IF start = "Some" /\ current_row > 0 /\ total > current_row /\ end = "None"
        THEN "Some" ELSE "None",
     is_finished |-> RowsDone(current_row, total)]

\* the VegetationProgressInfo get_progress_info builds from the six values it has
\* read (models/processing.rs:104-142); the two durations are "Some" or "None"
get_progress_info(current_row, total, items, errs, start, end) ==
    [current_row |-> current_row,
     total_rows |-> total,
     created_items |-> items,
     errors |-> errs,
     percentage |-> percentage(current_row, total),
     elapsed_seconds |-> IF start = "Some" THEN "Some" ELSE "None",
     estimated_remaining_seconds |->
        IF start = "Some" /\ current_row > 0 /\ total > current_row /\ end = "None"
        THEN "Some" ELSE "None",
     is_finished |-> end = "Some" \/ RowsDone(current_row, total)]

\* the variables the methods of the state leave alone
StateFrame ==
    UNCHANGED <<svars, pvars, tvars, content, params, bpc, lines, line_idx, row_index,
                out_points, written, mutex, rpc, snapshot, points_len, row_items, other>>

\* initialize (models/processing.rs:86-94)
Initialize ==
    /\ StateFrame
    /\ \E total \in 0..MaxRows :
        /\ processed_rows' = 0
        /\ total_rows' = total
        /\ created_items' = 0
        /\ errors' = <<>>
        /\ start_time' = "Some"
        /\ end_time' = "None"
        /\ emitted' = get_progress_info(0, total, 0, <<>>, "Some", "None")

\* update_processed_rows (models/processing.rs:66-69)
UpdateProcessedRows ==
    /\ StateFrame
    /\ \E count \in 0..MaxRows :
        /\ processed_rows' = count
        /\ emitted' = get_progress_info(count, total_rows, created_items, errors,
                                        start_time, end_time)
    /\ UNCHANGED <<total_rows, created_items, errors, start_time, end_time>>

\* update_created_items (models/processing.rs:71-74)
UpdateCreatedItems ==
    /\ StateFrame
    /\ \E count \in 0..MaxRows :
        /\ created_items' = count
        /\ emitted' = get_progress_info(processed_rows, total_rows, count, errors,
                                        start_time, end_time)
    /\ UNCHANGED <<processed_rows, total_rows, errors, start_time, end_time>>

\* add_error (models/processing.rs:76-79)
AddError ==
    /\ StateFrame
    /\ Len(errors) < MaxRows
    /\ errors' = Append(errors, [text |-> "Error at row", n |-> 0, msg |-> "none"])
    /\ emitted' = get_progress_info(processed_rows, total_rows, created_items, errors',
                                    start_time, end_time)
    /\ UNCHANGED <<processed_rows, total_rows, created_items, start_time, end_time>>

\* set_finished (models/processing.rs:81-84)
SetFinished ==
    /\ StateFrame
    /\ end_time' = "Some"
    /\ emitted' = get_progress_info(processed_rows, total_rows, created_items, errors,
                                    start_time, "Some")
    /\ UNCHANGED <<processed_rows, total_rows, created_items, errors, start_time>>

\* the variables get_vegetation_progress leaves alone
InfoFrame ==
    UNCHANGED <<svars, pvars, tvars, bvars, mutex, points_len, row_items, ovars>>

\* get_vegetation_progress is called (models/processing.rs:146-151):
\* let current_row = *self.processed_rows.lock().unwrap() (models/processing.rs:97);
\* each guard is dropped at the end of its statement
InfoCurrentRow ==
    /\ InfoFrame
    /\ rpc = "idle"
    /\ snapshot' = [current_row |-> processed_rows]
    /\ rpc' = "total_rows"

\* let total_rows (models/processing.rs:98)
InfoTotalRows ==
    /\ InfoFrame
    /\ rpc = "total_rows"
    /\ snapshot' = [current_row |-> snapshot.current_row, total_rows |-> total_rows]
    /\ rpc' = "created_items"

\* let created_items (models/processing.rs:99)
InfoCreatedItems ==
    /\ InfoFrame
    /\ rpc = "created_items"
    /\ snapshot' = [current_row |-> snapshot.current_row, total_rows |-> snapshot.total_rows,
                    created_items |-> created_items]
    /\ rpc' = "errors"

\* let errors (models/processing.rs:100)
InfoErrors ==
    /\ InfoFrame
    /\ rpc = "errors"
    /\ snapshot' = [current_row |-> snapshot.current_row, total_rows |-> snapshot.total_rows,
                    created_items |-> snapshot.created_items, errors |-> errors]
    /\ rpc' = "start_time"

\* let start_time (models/processing.rs:101)
InfoStartTime ==
    /\ InfoFrame
    /\ rpc = "start_time"
    /\ snapshot' = [current_row |-> snapshot.current_row, total_rows |-> snapshot.total_rows,
                    created_items |-> snapshot.created_items, errors |-> snapshot.errors,
                    start_time |-> start_time]
    /\ rpc' = "end_time"

\* let end_time, then the report is computed and returned (models/processing.rs:102-142)
InfoEndTime ==
    /\ InfoFrame
    /\ rpc = "end_time"
    /\ snapshot' = get_progress_info(snapshot.current_row, snapshot.total_rows,
                                     snapshot.created_items, snapshot.errors,
                                     snapshot.start_time, end_time)
    /\ rpc' = "idle"

FinishNext ==
    \/ Initialize
    \/ UpdateProcessedRows
    \/ UpdateCreatedItems
    \/ AddError
    \/ SetFinished
    \/ InfoCurrentRow
    \/ InfoTotalRows
    \/ InfoCreatedItems
    \/ InfoErrors
    \/ InfoStartTime
    \/ InfoEndTime

FinishSpecInit == BatchIdle /\ ProgressIdle /\ ParseIdle /\ SamplerIdle /\ SettingsIdle

FinishSpec == FinishSpecInit /\ [][FinishNext]_vars

(***************************************************************************)
(* Two invocations of generate_vegetation_from_csv on one state            *)
(***************************************************************************)
\* the files of the second invocation: the header alone or with one data line
OverlapFiles == {Header} \cup {Header \o NewLine \o l : l \in ProgressLineKinds}

OtherLines == StrSplit(other.content, NewLine)

\* the variables the second invocation leaves alone
OtherFrame ==
    UNCHANGED <<svars, pvars, tvars, content, params, bpc, lines, line_idx, row_index,
                out_points, written, rpc, snapshot, points_len, row_items, start_time,
                end_time, emitted>>

\* the command is invoked a second time while the first call runs or after it
\* (an async command, processing.rs:30-35)
OtherEnters ==
    /\ OtherFrame
    /\ other.pc = "idle"
    /\ \E c \in OverlapFiles : other' = [NoOther EXCEPT !.pc = "reset_rows", !.content = c]
    /\ UNCHANGED <<processed_rows, total_rows, created_items, errors, mutex>>

\* *state.processed_rows.lock().unwrap() = 0 (processing.rs:37)
OtherResetProcessedRows ==
    /\ OtherFrame
    /\ other.pc = "reset_rows"
    /\ mutex["processed_rows"] = "free"
    /\ processed_rows' = 0
    /\ other' = [other EXCEPT !.pc = "reset_items"]
    /\ UNCHANGED <<total_rows, created_items, errors, mutex>>

\* *state.created_items.lock().unwrap() = 0 (processing.rs:38)
OtherResetCreatedItems ==
    /\ OtherFrame
    /\ other.pc = "reset_items"
    /\ mutex["created_items"] = "free"
    /\ created_items' = 0
    /\ other' = [other EXCEPT !.pc = "reset_errors"]
    /\ UNCHANGED <<processed_rows, total_rows, errors, mutex>>

\* state.errors.lock().unwrap().clear() (processing.rs:39)
OtherClearErrors ==
    /\ OtherFrame
    /\ other.pc = "reset_errors"
    /\ mutex["errors"] = "free"
    /\ errors' = <<>>
    /\ other' = [other EXCEPT !.pc = "count_rows"]
    /\ UNCHANGED <<processed_rows, total_rows, created_items, mutex>>

\* *state.total_rows.lock().unwrap() = total_rows (processing.rs:42-46)
OtherSetTotalRows ==
    /\ OtherFrame
    /\ other.pc = "count_rows"
    /\ mutex["total_rows"] = "free"
    /\ total_rows' = count_file_rows(other.content)
    /\ other' = [other EXCEPT !.pc = "read_input"]
    /\ UNCHANGED <<processed_rows, created_items, errors, mutex>>

\* process_vegetation_data reads the input and creates the output (processing.rs:94-108)
OtherReadInput ==
    /\ OtherFrame
    /\ other.pc = "read_input"
    /\ other' = [other EXCEPT !.pc = "line", !.line_idx = 1, !.row_index = 0]
    /\ UNCHANGED <<processed_rows, total_rows, created_items, errors, mutex>>

\* a blank line is passed over (processing.rs:110-113)
OtherSkipBlankLine ==
    /\ OtherFrame
    /\ other.pc = "line"
    /\ other.line_idx < Len(OtherLines)
    /\ ~NonBlank(OtherLines[other.line_idx + 1])
    /\ other' = [other EXCEPT !.line_idx = @ + 1]
    /\ UNCHANGED <<processed_rows, total_rows, created_items, errors, mutex>>

\* a line without polygon text (processing.rs:154-160)
OtherPushNoPolygon ==
    /\ OtherFrame
    /\ other.pc = "line"
    /\ other.line_idx < Len(OtherLines)
    /\ NonBlank(OtherLines[other.line_idx + 1])
    /\ ~HasPolygonText(OtherLines[other.line_idx + 1])
    /\ mutex["errors"] = "free"
    /\ errors' = Append(errors, [text |-> "No polygon data in line", n |-> other.line_idx,
                                 msg |-> "none"])
    /\ other' = [other EXCEPT !.pc = "store_rows"]
    /\ UNCHANGED <<processed_rows, total_rows, created_items, mutex>>

\* distribute_points_in_polygon returns; its points are written (processing.rs:116-123, 145)
OtherDistributeReturns ==
    /\ OtherFrame
    /\ other.pc = "line"
    /\ other.line_idx < Len(OtherLines)
    /\ NonBlank(OtherLines[other.line_idx + 1])
    /\ HasPolygonText(OtherLines[other.line_idx + 1])
    /\ \E r \in DistributeOutcomes(OtherLines[other.line_idx + 1]) :
        IF r.ok
        THEN other' = [other EXCEPT !.pc = "lock_created", !.points_len = r.n,
                                    !.written = @ + r.n]
        ELSE other' = [other EXCEPT !.pc = "push_error"]
    /\ UNCHANGED <<processed_rows, total_rows, created_items, errors, mutex>>

\* *created_items += points.len(), the guard kept (processing.rs:126-127)
OtherLockCreatedItems ==
    /\ OtherFrame
    /\ other.pc = "lock_created"
    /\ mutex["created_items"] = "free"
    /\ mutex' = [mutex EXCEPT !["created_items"] = "other"]
    /\ created_items' = created_items + other.points_len
    /\ other' = [other EXCEPT !.pc = "log_row"]
    /\ UNCHANGED <<processed_rows, total_rows, errors>>

\* println! locks total_rows, then the arm ends and created_items is unlocked
\* (processing.rs:137-144)
OtherLogRow ==
    /\ OtherFrame
    /\ other.pc = "log_row"
    /\ mutex["total_rows"] = "free"
    /\ mutex' = [mutex EXCEPT !["created_items"] = "free"]
    /\ other' = [other EXCEPT !.pc = "store_rows", !.points_len = 0]
    /\ UNCHANGED <<processed_rows, total_rows, created_items, errors>>

\* the Err arm (processing.rs:145-152)
OtherPushRowError ==
    /\ OtherFrame
    /\ other.pc = "push_error"
    /\ mutex["errors"] = "free"
    /\ errors' = Append(errors, [text |-> "Error at row", n |-> other.row_index,
                                 msg |-> LineError(OtherLines[other.line_idx + 1])])
    /\ other' = [other EXCEPT !.pc = "store_rows"]
    /\ UNCHANGED <<processed_rows, total_rows, created_items, mutex>>

\* row_index += 1; *state.processed_rows.lock().unwrap() = row_index (processing.rs:162-165)
OtherStoreProcessedRows ==
    /\ OtherFrame
    /\ other.pc = "store_rows"
    /\ mutex["processed_rows"] = "free"
    /\ processed_rows' = other.row_index + 1
    /\ other' = [other EXCEPT !.pc = "line", !.row_index = @ + 1, !.line_idx = @ + 1]
    /\ UNCHANGED <<total_rows, created_items, errors, mutex>>

\* the lines are exhausted: Ok(()) (processing.rs:110, 167)
OtherReturns ==
    /\ OtherFrame
    /\ other.pc = "line"
    /\ other.line_idx >= Len(OtherLines)
    /\ other' = [other EXCEPT !.pc = "returned"]
    /\ UNCHANGED <<processed_rows, total_rows, created_items, errors, mutex>>

OtherNext ==
    \/ OtherEnters
    \/ OtherResetProcessedRows
    \/ OtherResetCreatedItems
    \/ OtherClearErrors
    \/ OtherSetTotalRows
    \/ OtherReadInput
    \/ OtherSkipBlankLine
    \/ OtherPushNoPolygon
    \/ OtherDistributeReturns
    \/ OtherLockCreatedItems
    \/ OtherLogRow
    \/ OtherPushRowError
    \/ OtherStoreProcessedRows
    \/ OtherReturns

\* the first invocation
FirstNext ==
    \/ ResetProcessedRows
    \/ ResetCreatedItems
    \/ ClearErrors
    \/ SetTotalRows
    \/ ReadInput
    \/ SkipBlankLine
    \/ PushNoPolygon
    \/ DistributeReturns
    \/ LockCreatedItems
    \/ LogRow
    \/ PushRowError
    \/ StoreProcessedRows
    \/ ProcessingReturns

OverlapNext == FirstNext \/ OtherNext

OverlapSpecInit ==
    /\ ProgressInit
    /\ ParseIdle
    /\ SamplerIdle
    /\ SettingsIdle

OverlapSpec == OverlapSpecInit /\ [][OverlapNext]_vars

(***************************************************************************)
(* Properties of the progress reports                                      *)
(***************************************************************************)
RECURSIVE SumFirst(_, _)
SumFirst(s, k) == IF k <= 0 THEN 0 ELSE s[k] + SumFirst(s, k - 1)

\* the batch is past its resets
InRows == bpc \in {"line", "lock_created", "log_row", "push_error", "store_rows", "returned"}

\* C29: a progress report is the state of the four fields at the moment
\* get_vegetation_progress returns, and the batch does not move them together: once
\* the rows are being processed, created_items is the total of the rows handled so
\* far, which are the processed_rows rows counted or one row more; so a report can
\* show the points of a row that current_row does not count yet.
SnapshotSkew ==
    /\ [][rpc = "errors" /\ rpc' = "idle" =>
            snapshot' = [current_row |-> processed_rows', total_rows |-> total_rows',
                         created_items |-> created_items', errors |-> errors']]_vars
    /\ [](InRows =>
            /\ Len(row_items) \in {processed_rows, processed_rows + 1}
            /\ created_items = SumFirst(row_items, Len(row_items)))

\* a report returned while the batch runs: it holds the points of the row just
\* handled and does not count that row
SnapshotSkewWitness ==
    /\ rpc = "idle"
    /\ bpc = "store_rows"
    /\ snapshot.current_row = processed_rows
    /\ snapshot.created_items = created_items
    /\ Len(row_items) = snapshot.current_row + 1
    /\ row_items[Len(row_items)] > 0
    /\ snapshot.created_items > SumFirst(row_items, snapshot.current_row)

\* the mutex the next step of the batch locks, "none" if it locks none
BatchWants ==
    CASE bpc = "reset_rows" -> "processed_rows"
      [] bpc = "reset_items" -> "created_items"
      [] bpc = "reset_errors" -> "errors"
      [] bpc = "count_rows" -> "total_rows"
      [] bpc = "lock_created" -> "created_items"
      [] bpc = "log_row" -> "total_rows"
      [] bpc = "push_error" -> "errors"
      [] bpc = "store_rows" -> "processed_rows"
      [] OTHER -> "none"

\* the mutex get_vegetation_progress locks next, "none" when it is not running
ReaderWants == IF rpc = "idle" THEN "none" ELSE rpc

\* C30: get_vegetation_progress and the batch never wait on each other: it is never
\* the case that the batch waits for a mutex the reader holds while the reader
\* waits for a mutex the batch holds.
ProgressDeadlockFree ==
    ~ /\ BatchWants # "none"
      /\ ReaderWants # "none"
      /\ mutex[BatchWants] = "reader"
      /\ mutex[ReaderWants] = "batch"

(***************************************************************************)
(* Properties of the totals of a batch                                     *)
(***************************************************************************)
\* the data lines of the file that are due an entry in errors
FailedLines ==
    {k \in 2..Len(FileLines) :
        /\ NonBlank(FileLines[k])
        /\ \/ ~HasPolygonText(FileLines[k])
           \/ LineError(FileLines[k]) # "none"}

\* C31: when one generate_vegetation_from_csv invocation runs alone and returns Ok,
\* created_items is the number of point rows written to the output file, errors
\* holds one entry per failed data line of this batch and none of an earlier
\* batch, and processed_rows is the number of non-blank data lines.
BatchAccounting ==
    bpc = "returned" =>
        /\ created_items = written
        /\ Len(errors) = Cardinality(FailedLines)
        /\ errors = ErrorsDue(FileLines, 1, 0, Len(FileLines))
        /\ processed_rows = Cardinality({k \in 2..Len(FileLines) : NonBlank(FileLines[k])})

\* a batch of two data lines, one failed and one with points, has returned
BatchAccountingWitness ==
    /\ bpc = "returned"
    /\ written >= 1
    /\ created_items = written
    /\ Len(errors) = 1
    /\ Cardinality(FailedLines) = 1
    /\ processed_rows = 2

\* C32: whenever generate_vegetation_from_csv returns Ok, processed_rows equals
\* total_rows, so that a file with data lines shows 100% and passes the row-count
\* test current_row >= total_rows, whatever the content of the file.
BatchReachesTotal ==
    bpc = "returned" =>
        /\ processed_rows = total_rows
        /\ total_rows > 0 =>
              /\ percentage(processed_rows, total_rows) = 100
              /\ RowsDone(processed_rows, total_rows)

\* C33: for batches run one after another, processed_rows <= total_rows in every
\* state get_vegetation_progress can observe, the states between the reset of the
\* counters and the assignment of the new total_rows included; a report never
\* shows more rows processed than the total it shows.
RowsWithinTotal ==
    /\ processed_rows <= total_rows
    /\ snapshot.total_rows >= 0 => snapshot.current_row <= snapshot.total_rows

\* a second batch over a shorter file has reset the counters and not yet assigned
\* its total, and a report was read in between
RowsWithinTotalWitness ==
    /\ bpc = "count_rows"
    /\ processed_rows = 0
    /\ total_rows >= 2
    /\ count_file_rows(content) < total_rows
    /\ rpc = "idle"
    /\ snapshot.current_row = 0
    /\ snapshot.total_rows = total_rows

\* C34: two overlapping invocations stay isolated: when the first returns Ok,
\* processed_rows is the number of non-blank data lines of its own file and
\* created_items is at least the number of points it wrote.
OverlapIsolated ==
    [][bpc # "returned" /\ bpc' = "returned" =>
          /\ processed_rows' = Cardinality({k \in 2..Len(FileLines) : NonBlank(FileLines[k])})
          /\ created_items' >= written']_vars

(***************************************************************************)
(* Properties of the preview                                               *)
(***************************************************************************)
\* the polygon distribute_points_in_polygon binds for a line it accepts
\* (processing.rs:198-203)
ExportPolygon(l) ==
    IF extract_polygon_from_string(transform_polygon_string(l)) # <<>>
    THEN extract_polygon_from_string(transform_polygon_string(l))
    ELSE <<parse_polygon_wkt(l).polygon>>

\* C35: for every geometry line extract_polygon_data obtains a polygon exactly when
\* distribute_points_in_polygon does, and the same polygon; a line the export
\* rejects (MULTIPOLYGON, or no POLYGON(( marker) is an error in the preview.
PreviewMatchesExport ==
    ppc \in {"previewed", "preview_err"} =>
        /\ (ppc = "previewed") <=> (LineError(line) = "none")
        /\ ppc = "previewed" => parsed = ExportPolygon(line)

(***************************************************************************)
(* Properties of the finished state                                        *)
(***************************************************************************)
\* C36: once set_finished has been called and until the next initialize, every
\* emitted progress event and every report get_progress_info returns has
\* is_finished = true and no estimated remaining time, whatever updates are made
\* in between; the report emitted by initialize has is_finished = false.
FinishedSticky ==
    /\ [](end_time = "Some" =>
            /\ emitted.is_finished
            /\ emitted.estimated_remaining_seconds = "None")
    /\ [][rpc = "end_time" /\ rpc' = "idle" /\ end_time = "Some" =>
            /\ snapshot'.is_finished
            /\ snapshot'.estimated_remaining_seconds = "None"]_vars
    /\ [][Initialize => ~emitted'.is_finished]_vars

\* a report was returned after set_finished, then the rows were updated to a count
\* below the total and the event emitted for it is still finished
FinishedStickyWitness ==
    /\ end_time = "Some"
    /\ start_time = "Some"
    /\ rpc = "idle"
    /\ snapshot # NoSnapshot
    /\ snapshot.is_finished
    /\ snapshot.elapsed_seconds = "Some"
    /\ snapshot.current_row # processed_rows
    /\ processed_rows > 0
    /\ processed_rows < total_rows
    /\ emitted.current_row = processed_rows
    /\ emitted.is_finished

(***************************************************************************)
(* Properties of the settings store                                        *)
(***************************************************************************)
\* what get_vegetation_params is due to return for a type: the parameters last set
\* and not removed since, otherwise the default parameters of the type
\* (models/settings.rs:145-172), otherwise nothing
Expected(t) ==
    IF t \in UserTypes /\ last_set[t].state = "set"
    THEN <<[vegetation_type |-> t, density |-> last_set[t].density,
            type_value |-> last_set[t].type_value]>>
    ELSE IF \E r \in DefaultRows : r.vegetation_type = t
    THEN <<CHOOSE r \in DefaultRows : r.vegetation_type = t>>
    ELSE <<>>

\* C37: after any sequence of set_user_vegetation_params,
\* remove_user_vegetation_params and reset_user_vegetation_params,
\* get_vegetation_params(t) returns the user parameters last set for t if a user
\* entry exists, otherwise the default parameters of t, otherwise None; and none
\* of these operations changes what get_default_vegetation_params returns.
SettingsPrecedence ==
    /\ [](fetched.op = "get_vegetation_params" /\ fetched.ret = "Ok" =>
            fetched.value = Expected(fetched.vegetation_type))
    /\ [][\A t \in VegetationTypes \cup {3} :
            get_default_vegetation_params(default_vegetation_params', t)
              = get_default_vegetation_params(default_vegetation_params, t)]_vars

\* the default parameters of type 2 are returned after its user parameters were
\* removed, while type 1 still has user parameters
SettingsPrecedenceWitness ==
    /\ fetched.op = "get_vegetation_params"
    /\ fetched.ret = "Ok"
    /\ fetched.vegetation_type = 2
    /\ fetched.value = <<[vegetation_type |-> 2, density |-> 5, type_value |-> 20]>>
    /\ last_set[2].state = "removed"
    /\ last_set[1].state = "set"

\* C38: set_user_vegetation_params with vegetation_type < 1 or density < 0 returns
\* an error and stores nothing; set_export_path with a path that does not exist or
\* is not a directory returns an error and keeps the stored export path.
ValidationKeepsStore ==
    /\ [][SetUserVegetationParams
            /\ (cmd_args'.vegetation_type < 1 \/ cmd_args'.density < 0) =>
                /\ store_ret' \in {"InvalidVegetationType", "InvalidPath"}
                /\ user_vegetation_params' = user_vegetation_params]_vars
    /\ [][SetExportPath /\ export_call'.path \notin Directories =>
                /\ export_call'.ret = "InvalidPath"
                /\ export_path' = export_path]_vars

\* a negative density was refused for a type that has user parameters, after a
\* directory had been stored as export path
ValidationKeepsStoreWitness ==
    /\ store_ret = "InvalidPath"
    /\ cmd_args.vegetation_type >= 1
    /\ cmd_args.density < 0
    /\ \E r \in user_vegetation_params :
          r.vegetation_type = cmd_args.vegetation_type /\ r.density > 0
    /\ export_path \in Directories

\* C39: the store accepts a density only if it is strictly greater than 0, so no
\* parameters read back from the store give the sampler a min_distance of 0.
StoredDensityPositive ==
    /\ \A r \in user_vegetation_params : r.density > 0
    /\ fetched.op = "get_vegetation_params" /\ fetched.value # <<>> =>
            fetched.value[1].density > 0

====
